---- MODULE Spec2Model ----
(***************************************************************************)
(* EchoSign / Cyren: the semantic field codec (packages/core/src/codec.ts), *)
(* the 120-byte wire frame, the hex transport encoding, the decode paths    *)
(* (decodeMessage and its callers), the retry wrapper and the acoustic      *)
(* modem of the web client (hooks/useAcousticTransmit.ts, ...Listen.ts).    *)
(* Further: the offline audit queue (packages/solana/src/audit-log.ts),     *)
(* the incident list of the web app, and the server's signing key           *)
(* (packages/server/src/routes/encode.ts).                                  *)
(*                                                                          *)
(* Conventions.                                                             *)
(*   - A Uint8Array is a sequence of integers 0..255; byte k of the source  *)
(*     (0-based) is element k + 1 of the sequence.                          *)
(*   - A string is the sequence of its UTF-16 code units (charCodeAt).      *)
(*   - lat / lon are decimal degrees held in fixed point, in units of       *)
(*     1/100,000 degree, one decimal digit finer than the codec's own       *)
(*     1/10,000 degree, so that Math.round has something to round.          *)
(*   - Numbers stay inside the signed 32-bit range, where the JavaScript    *)
(*     operators >> and & act on the value itself.                          *)
(***************************************************************************)
EXTENDS Integers, Sequences, FiniteSets, TLC

VARIABLES
    pc,         \* codec: the last operation applied
    fields,     \* codec: the SemanticFields handed to packFields
    code,       \* codec: the 24-byte code in hand
    crcValid,   \* codec: the last result of verifyChecksum ("none" before)
    decoded,    \* codec: the last result of unpackFields
    repacked,   \* codec: packFields(decoded)
    flipped,    \* codec: the bit position corrupted in transit, -1 if none
    fpc,        \* frame: the last operation applied
    parts,      \* frame: the {code, signature, publicKey} handed to packFrame
    frame,      \* frame: the wire frame in hand
    split,      \* frame: the last result of unpackFrame
    ferr,       \* frame: the error the last operation failed with, "none" if it did not
    hpc,        \* hex: the last operation applied
    hexBytes,   \* hex: the bytes handed to bytesToHex
    hex,        \* hex: the string in hand, a sequence of characters
    hexOut,     \* hex: the last result of hexToBytes
    herr,       \* hex: the error hexToBytes failed with, "none" if it did not
    dpc,        \* decode: where the decode request stands
    dcaller,    \* decode: who asked: "cli", "demo", "http", "panel" or "alert"
    dinput,     \* decode: the 24 bytes of the code handed in
    dskip,      \* decode: decodeMessage's skipCrc
    dverified,  \* decode: decodeMessage's verified, "true" / "false" / "null"
    dcrc,       \* decode: decodeMessage's crcValid
    dfields,    \* decode: the fields decodeMessage unpacked
    dcalls,     \* decode: how many text-reconstruction calls were made
    dresult,    \* decode: what decodeMessage returned
    derr,       \* decode: the error decodeMessage threw, "none" if it did not
    sigResult,  \* decode: what verifySignature returned for the code, "none" if not called
    status,     \* decode: the verification status the caller shows
    tpc,        \* tone: where buildTones stands
    tdata,      \* tone: the bytes handed to buildTones
    tones,      \* tone: the tones pushed so far
    ttime,      \* tone: buildTones' time, in milliseconds
    ti,         \* tone: the index of the running loop
    rpc,        \* retry: where withRetry stands
    rcaller,    \* retry: the function that wrapped its Gemini call
    ri,         \* retry: withRetry's loop index i
    rcalls,     \* retry: how many times fn was called
    rwaits,     \* retry: the waits made so far, in milliseconds
    rerrs,      \* retry: the errors fn threw so far
    rthrown,    \* retry: the error withRetry threw
    lpc,        \* listen: where the listener stands
    sampleRate, \* listen: ctx.sampleRate of the capture
    pcmKind,    \* listen: what was captured: "zero", "clean" or "weak"
    loudAt,     \* listen: the sample at which the captured signal starts
    pcmLength,  \* listen: the number of samples captured so far
    expectedBytes, \* listen: stopAndDecode's expectedBytes
    pos,        \* listen: the position of the running scan
    energyStart, \* listen: what findEnergyOnset returned
    bestPos,    \* listen: detectPreamble's bestPos
    bestScore,  \* listen: detectPreamble's bestScore, in tenths
    dataStart,  \* listen: what detectPreamble returned
    ni,         \* listen: the nibble loop's index i
    ldata,      \* listen: the data array of the decode
    errorPositions, \* listen: the errorPositions array of the decode
    totalConfidence, \* listen: the sum of the nibble confidences, in thousandths
    lresult,    \* listen: the AcousticDecodeResult returned
    queue,      \* queue: OfflineAuditQueue.queue, entries by number
    storage,    \* queue: localStorage[cyren_audit_queue]
    chain,      \* queue: the entries confirmed on chain, in order
    flushes,    \* queue: the flush calls: where each stands, its copy of the queue, its results
    enqueued,   \* queue: how many entries were handed to enqueue
    isListening, \* hook: the isListening state
    ctxRef,     \* hook: ctxRef.current: the number of the AudioContext, NoContext for null
    chunks,     \* hook: how many chunks chunksRef.current holds
    hookResult, \* hook: the result state
    returned,   \* hook: what the last stopAndDecode returned
    pending,    \* hook: startListening calls waiting for getUserMedia
    processor,  \* hook: processorRef.current is connected
    stray,      \* hook: connected processors that processorRef no longer holds
    starts,     \* hook: how many times startListening was called
    stops,      \* hook: how many times stopAndDecode was called
    started,    \* hook: startListening was called and stopAndDecode was not since
    logs,       \* log: App: the logs state, the incident list
    incidents,  \* log: server: incidentStore.incidents, in insertion order
    response,   \* log: the answer to getAllIncidents on its way to the app
    loads,      \* log: how many times loadIncidents was called
    revs,       \* log: how many incident records were made
    lastOp,     \* log: the last operation on the incident list and its incident
    signingKeyPromise, \* key: "null", or the state of the promise: "pending", "resolved", "rejected"
    promiseKey, \* key: the keypair the promise is for, by the number of the generateKeypair call
    generated,  \* key: how many times generateKeypair was called
    requests,   \* key: the POST /encode requests: where each stands and the key it holds
    origin,     \* site: how the code handed to a decode was received: "acoustic", "manual", "none"
    asked       \* site: the skipCrc the call site asked for

codecVars == <<pc, fields, code, crcValid, decoded, repacked, flipped>>
frameVars == <<fpc, parts, frame, split, ferr>>
hexVars == <<hpc, hexBytes, hex, hexOut, herr>>
decodeVars == <<dpc, dcaller, dinput, dskip, dverified, dcrc, dfields, dcalls, dresult,
                derr, sigResult, status>>
toneVars == <<tpc, tdata, tones, ttime, ti>>
retryVars == <<rpc, rcaller, ri, rcalls, rwaits, rerrs, rthrown>>
listenVars == <<lpc, sampleRate, pcmKind, loudAt, pcmLength, expectedBytes, pos, energyStart, bestPos, bestScore, dataStart, ni, ldata, errorPositions, totalConfidence, lresult>>
queueVars == <<queue, storage, chain, flushes, enqueued>>
hookVars == <<isListening, ctxRef, chunks, hookResult, returned, pending, processor, stray, starts, stops, started>>
logVars == <<logs, incidents, response, loads, revs, lastOp>>
keyVars == <<signingKeyPromise, promiseKey, generated, requests>>
siteVars == <<origin, asked>>

vars == <<codecVars, frameVars, hexVars, decodeVars, toneVars, retryVars, listenVars, queueVars, hookVars, logVars, keyVars, siteVars>>

\* What the actions of one component leave alone.
codecOthers == <<frameVars, hexVars, decodeVars, toneVars, retryVars, listenVars, queueVars, hookVars, logVars, keyVars, siteVars>>
frameOthers == <<codecVars, hexVars, decodeVars, toneVars, retryVars, listenVars, queueVars, hookVars, logVars, keyVars, siteVars>>
hexOthers == <<codecVars, frameVars, decodeVars, toneVars, retryVars, listenVars, queueVars, hookVars, logVars, keyVars, siteVars>>
decodeOthers == <<codecVars, frameVars, hexVars, toneVars, retryVars, listenVars, queueVars, hookVars, logVars, keyVars, siteVars>>
toneOthers == <<codecVars, frameVars, hexVars, decodeVars, retryVars, listenVars, queueVars, hookVars, logVars, keyVars, siteVars>>
retryOthers == <<codecVars, frameVars, hexVars, decodeVars, toneVars, listenVars, queueVars, hookVars, logVars, keyVars, siteVars>>
listenOthers == <<codecVars, frameVars, hexVars, decodeVars, toneVars, retryVars, queueVars, hookVars, logVars, keyVars, siteVars>>
queueOthers == <<codecVars, frameVars, hexVars, decodeVars, toneVars, retryVars, listenVars, hookVars, logVars, keyVars, siteVars>>
hookOthers == <<codecVars, frameVars, hexVars, decodeVars, toneVars, retryVars, listenVars, queueVars, logVars, keyVars, siteVars>>
logOthers == <<codecVars, frameVars, hexVars, decodeVars, toneVars, retryVars, listenVars, queueVars, hookVars, keyVars, siteVars>>
keyOthers == <<codecVars, frameVars, hexVars, decodeVars, toneVars, retryVars, listenVars, queueVars, hookVars, logVars, siteVars>>
siteOthers == <<codecVars, frameVars, hexVars, decodeVars, toneVars, retryVars, listenVars, queueVars, hookVars, logVars, keyVars>>

(***************************************************************************)
(* Bounds of the model.                                                     *)
(***************************************************************************)
\* severity inputs range over -1 .. MaxSeverityInput
MaxSeverityInput == 11
\* population inputs are 0 and 2^k - 1, 2^k, 2^k + 1 for k up to MaxPopExp
MaxPopExp == 17
\* frame inputs are up to MaxLenSkew bytes shorter or longer than the sizes required
MaxLenSkew == 1
\* hex strings handed to hexToBytes have up to MaxHexLen characters
MaxHexLen == 4
\* byte arrays handed to bytesToHex have up to MaxBytesLen bytes
MaxBytesLen == 2
\* byte buffers handed to buildTones have up to MaxToneBytes bytes (and the wire frame)
MaxToneBytes == 3
\* a capture holds up to MaxChunks audio chunks of 4096 samples
MaxChunks == 14

\* entries handed to enqueue, and submissions confirmed on chain
MaxEntries == 3
MaxSubmissions == 5

\* calls of startListening and of stopAndDecode, and chunks captured
MaxStarts == 3
MaxStops == 3
MaxHookChunks == 2

\* incident ids, incident records made, and calls of loadIncidents
MaxIds == 3
MaxRevs == 3
MaxLoads == 2

\* POST /encode requests
MaxRequests == 3

(***************************************************************************)
(* Integer helpers standing for the JavaScript operators the codec uses.    *)
(***************************************************************************)
Min2(a, b) == IF a < b THEN a ELSE b
Max2(a, b) == IF a > b THEN a ELSE b

\* Storing a number into a Uint8Array element keeps it modulo 2^8.
ToUint8(x) == x % 256

\* x >> n for a signed 32-bit x: the arithmetic shift, floor(x / 2^n).
ShiftRight(x, n) == x \div (2 ^ n)

\* x & 0xFF
And255(x) == x % 256

\* a ^ b on 4-bit values, tabulated once.
Xor4 == [a \in 0..15 |-> [b \in 0..15 |->
            ((((a \div 1) % 2) + ((b \div 1) % 2)) % 2) * 1
          + ((((a \div 2) % 2) + ((b \div 2) % 2)) % 2) * 2
          + ((((a \div 4) % 2) + ((b \div 4) % 2)) % 2) * 4
          + ((((a \div 8) % 2) + ((b \div 8) % 2)) % 2) * 8]]

\* a ^ b on 16-bit values.
BitXor(a, b) ==
      Xor4[a % 16][b % 16]
    + 16 * Xor4[(a \div 16) % 16][(b \div 16) % 16]
    + 256 * Xor4[(a \div 256) % 16][(b \div 256) % 16]
    + 4096 * Xor4[(a \div 4096) % 16][(b \div 4096) % 16]

\* Math.ceil(Math.log2(n)) for an integer n >= 1: the least k with 2^k >= n.
RECURSIVE CeilLog2(_)
CeilLog2(n) == IF n <= 1 THEN 0 ELSE 1 + CeilLog2((n + 1) \div 2)

\* Math.round(v / 10) for an integer v: the nearest integer, halves upwards.
RoundTenth(v) == (v + 5) \div 10

(***************************************************************************)
(* AlertType and the type maps.                                             *)
(***************************************************************************)
AlertType == [SOS |-> 1, Medical |-> 2, Fire |-> 3, Flood |-> 4, Earthquake |-> 5,
              Infra |-> 6, Evacuation |-> 7, AllClear |-> 8, Supply |-> 9, Rescue |-> 10]

\* Object.entries(TYPE_MAP), in insertion order.
TYPE_ENTRIES == <<
    <<"SO", AlertType.SOS>>, <<"MD", AlertType.Medical>>, <<"FI", AlertType.Fire>>,
    <<"FL", AlertType.Flood>>, <<"EQ", AlertType.Earthquake>>, <<"IN", AlertType.Infra>>,
    <<"EV", AlertType.Evacuation>>, <<"AC", AlertType.AllClear>>, <<"SC", AlertType.Supply>>,
    <<"RC", AlertType.Rescue>>, <<"TS", AlertType.Flood>> >>

TYPE_MAP == [t \in {TYPE_ENTRIES[i][1] : i \in 1..Len(TYPE_ENTRIES)} |->
                LET i == CHOOSE j \in 1..Len(TYPE_ENTRIES) : TYPE_ENTRIES[j][1] = t
                IN TYPE_ENTRIES[i][2]]

\* The loop keeps the first code seen for each value.
REVERSE_TYPE_MAP == [v \in {TYPE_ENTRIES[i][2] : i \in 1..Len(TYPE_ENTRIES)} |->
                LET i == CHOOSE j \in 1..Len(TYPE_ENTRIES) :
                            /\ TYPE_ENTRIES[j][2] = v
                            /\ \A k \in 1..(j - 1) : TYPE_ENTRIES[k][2] # v
                IN TYPE_ENTRIES[i][1]]

(***************************************************************************)
(* CRC-16.                                                                  *)
(***************************************************************************)
\* One pass of the inner loop: test 0x8000, shift left, xor 0x1021, mask.
crcShift(crc) ==
    IF crc >= 32768 THEN BitXor((crc * 2) % 65536, 4129) ELSE (crc * 2) % 65536

\* crc ^= byte << 8, then the eight passes of the inner loop.
crcByte(crc, byte) ==
    crcShift(crcShift(crcShift(crcShift(
    crcShift(crcShift(crcShift(crcShift(BitXor(crc, byte * 256)))))))))

\* The outer loop from index i on, the register holding crc.
RECURSIVE crcFrom(_, _, _)
crcFrom(data, i, crc) ==
    IF i > Len(data) THEN crc
    ELSE CHOOSE r \in {crcFrom(data, i + 1, n) : n \in {crcByte(crc, data[i])}} : TRUE

\* Mutant: the register starts at 0x0000 (CRC-16/XMODEM).
crc16InitZero(data) == crcFrom(data, 1, 0)

\* Mutant: the loop runs to data.length - 1 and misses the last byte.
crc16SkipLast(data) == crcFrom(SubSeq(data, 1, Len(data) - 1), 1, 65535)

crc16(data) == crcFrom(data, 1, 65535)

(***************************************************************************)
(* packFields: SemanticFields -> 24 bytes.                                  *)
(***************************************************************************)
Zeros(n) == [i \in 1..n |-> 0]

\* Byte 0: TYPE_MAP[fields.type] ?? AlertType.SOS
packType(type) ==
    ToUint8(IF type \in DOMAIN TYPE_MAP THEN TYPE_MAP[type] ELSE AlertType.SOS)

\* Byte 1: Math.min(9, Math.max(1, fields.severity))
packSeverity(severity) == ToUint8(Min2(9, Max2(1, severity)))

\* Mutant: the three bytes written low byte first.
packCoordLE(deg, offset) ==
    LET n == RoundTenth(deg) + offset
    IN <<And255(n), And255(ShiftRight(n, 8)), And255(ShiftRight(n, 16))>>

\* Bytes 2-4 and 5-7: Math.round(v * 10000) + offset, written as
\* (n >> 16) & 0xFF, (n >> 8) & 0xFF, n & 0xFF.  deg is in 1/100,000 degree.
packCoord(deg, offset) ==
    LET n == RoundTenth(deg) + offset
    IN <<And255(ShiftRight(n, 16)), And255(ShiftRight(n, 8)), And255(n)>>

\* Mutant: Math.floor in place of Math.ceil.
packPopFloor(pop) ==
    LET up == CeilLog2(pop)
        popLog == IF pop > 0 THEN Min2(15, IF 2 ^ up = pop THEN up ELSE up - 1) ELSE 0
    IN ToUint8((popLog % 16) * 16)

\* Byte 8: (popLog & 0x0F) << 4
packPop(pop) ==
    LET popLog == IF pop > 0 THEN Min2(15, CeilLog2(pop)) ELSE 0
    IN ToUint8((popLog % 16) * 16)

\* Bytes 9-16: the first 8 code units of msg, then zeros.
packMsg(msg) == [i \in 1..8 |-> IF i - 1 < Len(msg) THEN ToUint8(msg[i]) ELSE 0]

\* Mutant: the checksum taken over code.slice(0, 16).
packCrcShort(buf) ==
    LET crc == crc16(SubSeq(buf, 1, 16))
    IN <<And255(ShiftRight(crc, 8)), And255(crc)>>

\* Bytes 17-18: crc16(code.slice(0, 17)), high byte first.
packCrc(buf) ==
    LET crc == crc16(SubSeq(buf, 1, 17))
    IN <<And255(ShiftRight(crc, 8)), And255(crc)>>

packFields(f) ==
    LET body == <<packType(f.type), packSeverity(f.severity)>>
                \o packCoord(f.lat, 900000) \o packCoord(f.lon, 1800000)
                \o <<packPop(f.pop)>> \o packMsg(f.msg)
    IN body \o packCrc(body \o Zeros(7)) \o Zeros(5)

(***************************************************************************)
(* unpackFields: 24 bytes -> SemanticFields.  The file holds two revisions  *)
(* of the function; they differ in the severity line only.                  *)
(***************************************************************************)
\* REVERSE_TYPE_MAP[code[0]] ?? 'SO'
unpackType(b) == IF b \in DOMAIN REVERSE_TYPE_MAP THEN REVERSE_TYPE_MAP[b] ELSE "SO"

\* Math.min(9, Math.max(1, code[1]))
unpackSeverity(b) == Min2(9, Max2(1, b))

\* code[1], the second revision
unpackSeverityRaw(b) == b

\* ((hi << 16) | (mid << 8) | lo) - offset) / 10000, in 1/100,000 degree
unpackCoord(hi, mid, lo, offset) == ((hi * 65536 + mid * 256 + lo) - offset) * 10

\* Mutant: the exponent returned in place of the count.
unpackPopNoPow(b) == ShiftRight(b, 4) % 16

\* popLog = (code[8] >> 4) & 0x0F;  popLog > 0 ? 2^popLog : 0
unpackPop(b) ==
    LET popLog == ShiftRight(b, 4) % 16
    IN IF popLog > 0 THEN 2 ^ popLog ELSE 0

\* Mutant: the loop breaks at the first zero byte.
RECURSIVE UntilNul(_)
UntilNul(bytes) ==
    IF bytes = <<>> \/ Head(bytes) = 0 THEN <<>>
    ELSE <<Head(bytes)>> \o UntilNul(Tail(bytes))

unpackMsgUntilNul(c) == UntilNul(SubSeq(c, 10, 17))

\* for i in 9..16: if (code[i] !== 0) msg += String.fromCharCode(code[i])
unpackMsg(c) == SelectSeq(SubSeq(c, 10, 17), LAMBDA b : b # 0)

unpackFields(c) ==
    [type |-> unpackType(c[1]),
     severity |-> unpackSeverity(c[2]),
     lat |-> unpackCoord(c[3], c[4], c[5], 900000),
     lon |-> unpackCoord(c[6], c[7], c[8], 1800000),
     pop |-> unpackPop(c[9]),
     msg |-> unpackMsg(c)]

unpackFieldsRev2(c) ==
    [type |-> unpackType(c[1]),
     severity |-> unpackSeverityRaw(c[2]),
     lat |-> unpackCoord(c[3], c[4], c[5], 900000),
     lon |-> unpackCoord(c[6], c[7], c[8], 1800000),
     pop |-> unpackPop(c[9]),
     msg |-> unpackMsg(c)]

\* expected === actual, with actual = (code[17] << 8) | code[18]
verifyChecksum(c) == crc16(SubSeq(c, 1, 17)) = c[18] * 256 + c[19]

(***************************************************************************)
(* Inputs.                                                                  *)
(***************************************************************************)
NoFields == [type |-> "", severity |-> 0, lat |-> 0, lon |-> 0, pop |-> 0, msg |-> <<>>]

\* "TRAPPED"
MsgTrapped == <<84, 82, 65, 80, 80, 69, 68>>

\* {type:"FI", severity:7, lat:34.0522, lon:-118.2437, pop:2000, msg:"TRAPPED"}
Example == [type |-> "FI", severity |-> 7, lat |-> 3405220, lon |-> -11824370,
            pop |-> 2000, msg |-> MsgTrapped]

\* The documented codes, "??" (the encoder prompt's code for an unknown type) and "".
TypeInputs == DOMAIN TYPE_MAP \cup {"??", ""}

SeverityInputs == (-1)..MaxSeverityInput

\* In range: the poles, values that round up and down, a half.  Out of range:
\* just past the poles, and 90 degrees plus 2^24 / 10000 degrees.
LatInputs == {-9000000, -3405225, -4, 0, 5, 3405220, 3405224, 3405225, 3405229, 9000000}
             \cup {-9000010, 9000010, -9100000, 176772160}

LonInputs == {-18000000, -11824370, -11824375, -6, 0, 5, 11824374, 18000000}
             \cup {-18000010, 18000010, 155947790, -185772160}

PopInputs == {-5, 0, 2000} \cup {2 ^ k + d : k \in 0..MaxPopExp, d \in {-1, 0, 1}}

\* "", "A", "TRAPPED", "RISINGWT", "COLLAPSED", "NEEDWATERNOW", "A\0B", "\0HI",
\* "é", "€A", "ĀA"
MsgInputs == {<<>>, <<65>>, MsgTrapped,
              <<82, 73, 83, 73, 78, 71, 87, 84>>,
              <<67, 79, 76, 76, 65, 80, 83, 69, 68>>,
              <<78, 69, 69, 68, 87, 65, 84, 69, 82, 78, 79, 87>>,
              <<65, 0, 66>>, <<0, 72, 73>>, <<233>>, <<8364, 65>>, <<256, 65>>}

FieldInputs ==
    {[Example EXCEPT !.type = t, !.severity = s] : t \in TypeInputs, s \in SeverityInputs}
    \cup {[Example EXCEPT !.lat = la, !.lon = lo] : la \in LatInputs, lo \in LonInputs}
    \cup {[Example EXCEPT !.pop = p, !.msg = m] : p \in PopInputs, m \in MsgInputs}

\* Codes that arrive from outside (pasted hex, a demodulated frame): any 24 bytes.
\* body is bytes 0-16; the CRC bytes are the right ones moved by crcOff.
MkReceived(body, crcOff, reserved) ==
    LET crc == (crc16(body) + crcOff) % 65536
    IN body \o <<crc \div 256, crc % 256>> \o reserved

ExampleCoords == packCoord(Example.lat, 900000) \o packCoord(Example.lon, 1800000)

ReceivedBodies ==
    {<<t, s>> \o ExampleCoords \o <<176>> \o packMsg(MsgTrapped) :
        t \in {0, 1, 4, 10, 11, 255}, s \in {0, 1, 9, 10, 200}}
    \cup {<<3, 7>> \o co \o <<p>> \o m :
        co \in {ExampleCoords, <<255, 255, 255, 0, 0, 0>>},
        p \in {0, 15, 176, 183, 255},
        m \in {packMsg(MsgTrapped), packMsg(<<65, 0, 66>>), packMsg(<<0, 72, 73>>),
               packMsg(<<>>), <<72, 69, 76, 80, 0, 0, 0, 33>>}}

ReceivedCodes ==
    {MkReceived(b, off, r) : b \in ReceivedBodies, off \in {0, 1},
                             r \in {Zeros(5), <<0, 0, 1, 0, 0>>}}

(***************************************************************************)
(* The codec as a state machine: each action applies one function.          *)
(***************************************************************************)
NoParts == [code |-> <<>>, signature |-> <<>>, publicKey |-> <<>>]

CodecIdle ==
    /\ pc = "idle"
    /\ fields = NoFields
    /\ code = <<>>
    /\ crcValid = "none"
    /\ decoded = NoFields
    /\ repacked = <<>>
    /\ flipped = -1

FrameIdle ==
    /\ fpc = "idle"
    /\ parts = NoParts
    /\ frame = <<>>
    /\ split = NoParts
    /\ ferr = "none"

HexIdle ==
    /\ hpc = "idle"
    /\ hexBytes = <<>>
    /\ hex = <<>>
    /\ hexOut = <<>>
    /\ herr = "none"

NoResult == [text |-> "", fields |-> NoFields, verified |-> "null", crcValid |-> FALSE]

DecodeIdle ==
    /\ dpc = "idle"
    /\ dcaller = "none"
    /\ dinput = <<>>
    /\ dskip = FALSE
    /\ dverified = "null"
    /\ dcrc = FALSE
    /\ dfields = NoFields
    /\ dcalls = 0
    /\ dresult = NoResult
    /\ derr = "none"
    /\ sigResult = "none"
    /\ status = "none"

ToneIdle ==
    /\ tpc = "idle"
    /\ tdata = <<>>
    /\ tones = <<>>
    /\ ttime = 0
    /\ ti = 0

NoError == [attempt |-> 0, isError |-> FALSE, text |-> <<>>]

RetryIdle ==
    /\ rpc = "idle"
    /\ rcaller = "none"
    /\ ri = 0
    /\ rcalls = 0
    /\ rwaits = <<>>
    /\ rerrs = <<>>
    /\ rthrown = NoError

NoDecode == [data |-> <<>>, confidence |-> 0, errorPositions |-> <<>>]

ListenIdle ==
    /\ lpc = "idle"
    /\ sampleRate = 0
    /\ pcmKind = "zero"
    /\ loudAt = 0
    /\ pcmLength = 0
    /\ expectedBytes = 0
    /\ pos = 0
    /\ energyStart = 0
    /\ bestPos = -1
    /\ bestScore = 0
    /\ dataStart = 0
    /\ ni = 0
    /\ ldata = <<>>
    /\ errorPositions = <<>>
    /\ totalConfidence = 0
    /\ lresult = NoDecode

\* a flush call that has not been made
NoFlush == [fpos |-> "idle", entries |-> <<>>, i |-> 0, results |-> <<>>]

\* new OfflineAuditQueue(): nothing queued, nothing stored, no flush running
QueueIdle ==
    /\ queue = <<>>
    /\ storage = <<>>
    /\ chain = <<>>
    /\ flushes = [f \in {1, 2} |-> NoFlush]
    /\ enqueued = 0

\* useRef<AudioContext | null>(null), useState<AcousticDecodeResult | null>(null),
\* and the undefined of a bare return
NoContext == 0
NoHookResult == [defined |-> FALSE, by |-> 0, chunks |-> 0, bytes |-> 0]
Undefined == [defined |-> FALSE, by |-> -1, chunks |-> 0, bytes |-> 0]

\* useAcousticListen(), lines 137-143
HookIdle ==
    /\ isListening = FALSE
    /\ ctxRef = NoContext
    /\ chunks = 0
    /\ hookResult = NoHookResult
    /\ returned = NoHookResult
    /\ pending = 0
    /\ processor = FALSE
    /\ stray = 0
    /\ starts = 0
    /\ stops = 0
    /\ started = FALSE

\* an incident is known by its id; rev tells its versions apart
Inc(id, rev) == [id |-> id, rev |-> rev]
NoResponse == [sent |-> FALSE, incidents |-> <<>>]
NoOp == [op |-> "none", incident |-> Inc(0, 0)]

\* the app is not mounted yet; a new IncidentStore on the server
LogIdle ==
    /\ logs = <<>>
    /\ incidents = <<>>
    /\ response = NoResponse
    /\ loads = 0
    /\ revs = 0
    /\ lastOp = NoOp

\* a request that has not arrived
NoRequest == [at |-> "none", key |-> 0]

\* the server has started: let signingKeyPromise = null, encode.ts line 7
KeyIdle ==
    /\ signingKeyPromise = "null"
    /\ promiseKey = 0
    /\ generated = 0
    /\ requests = [r \in 1..MaxRequests |-> NoRequest]

\* no call site has asked for a decode
SiteIdle ==
    /\ origin = "none"
    /\ asked = FALSE

Init == CodecIdle /\ FrameIdle /\ HexIdle /\ DecodeIdle /\ ToneIdle /\ RetryIdle /\ ListenIdle /\ QueueIdle /\ HookIdle /\ LogIdle /\ KeyIdle /\ SiteIdle

PackFields(f) ==
    /\ pc = "idle"
    /\ fields' = f
    /\ code' = packFields(f)
    /\ pc' = "packed"
    /\ UNCHANGED <<crcValid, decoded, repacked, flipped, codecOthers>>

Receive(c) ==
    /\ pc = "idle"
    /\ code' = c
    /\ pc' = "received"
    /\ UNCHANGED <<fields, crcValid, decoded, repacked, flipped, codecOthers>>

VerifyChecksum ==
    /\ pc \in {"packed", "received", "flipped"}
    /\ crcValid' = verifyChecksum(code)
    /\ pc' = "verified"
    /\ UNCHANGED <<fields, code, decoded, repacked, flipped, codecOthers>>

UnpackFields(rev) ==
    /\ pc = "verified"
    /\ decoded' = IF rev = 1 THEN unpackFields(code) ELSE unpackFieldsRev2(code)
    /\ pc' = "unpacked"
    /\ UNCHANGED <<fields, code, crcValid, repacked, flipped, codecOthers>>

Repack ==
    /\ pc = "unpacked"
    /\ repacked' = packFields(decoded)
    /\ pc' = "repacked"
    /\ UNCHANGED <<fields, code, crcValid, decoded, flipped, codecOthers>>

Next ==
    \/ \E f \in FieldInputs : PackFields(f)
    \/ \E c \in ReceivedCodes : Receive(c)
    \/ VerifyChecksum
    \/ \E rev \in {1, 2} : UnpackFields(rev)
    \/ Repack

Spec == Init /\ [][Next]_vars

(***************************************************************************)
(* The channel: one bit of bytes 0-16 of a code that verified is inverted   *)
(* on the way (environment, not code of the repository).                    *)
(***************************************************************************)
FlipBit(i) ==
    /\ pc = "verified"
    /\ crcValid = TRUE
    /\ flipped = -1
    /\ code' = [code EXCEPT ![(i \div 8) + 1] = BitXor(@, 2 ^ (7 - (i % 8)))]
    /\ flipped' = i
    /\ pc' = "flipped"
    /\ UNCHANGED <<fields, crcValid, decoded, repacked, codecOthers>>

FlipFieldInputs ==
    {[Example EXCEPT !.type = t, !.msg = m] :
        t \in {"FI", "SO", "TS"}, m \in {MsgTrapped, <<>>, <<65, 0, 66>>}}
    \cup {[Example EXCEPT !.lat = la, !.pop = p] : la \in {-9000000, 9000010}, p \in {0, 65536}}

FlipReceivedCodes ==
    {MkReceived(b, off, r) :
        b \in {<<t, 200>> \o ExampleCoords \o <<183>> \o packMsg(<<0, 72, 73>>) : t \in {0, 255}}
              \cup {Zeros(17), [i \in 1..17 |-> 255]},
        off \in {0, 1}, r \in {Zeros(5), <<0, 0, 1, 0, 0>>}}

NextFlip ==
    \/ \E f \in FlipFieldInputs : PackFields(f)
    \/ \E c \in FlipReceivedCodes : Receive(c)
    \/ VerifyChecksum
    \/ \E i \in 0..135 : FlipBit(i)

SpecFlip == Init /\ [][NextFlip]_vars

(***************************************************************************)
(* Properties of the field codec.                                           *)
(***************************************************************************)
Abs(x) == IF x < 0 THEN -x ELSE x
Clamp(x, lo, hi) == IF x < lo THEN lo ELSE IF x > hi THEN hi ELSE x

DocumentedTypes == {"SO", "MD", "FI", "FL", "EQ", "IN", "EV", "AC", "SC", "RC", "TS"}

\* Fields inside the documented ranges.
ValidFields(f) ==
    /\ f.type \in DocumentedTypes
    /\ f.severity \in 1..9
    /\ f.lat \in (-9000000)..9000000
    /\ f.lon \in (-18000000)..18000000
    /\ f.pop >= 0
    /\ Len(f.msg) <= 8
    /\ \A i \in 1..Len(f.msg) : f.msg[i] \in 1..127

\* ceil(log2(pop)) clamped to 0..15: the least k in 0..15 with 2^k >= pop, or 15.
PopBucket(p) ==
    IF p <= 0 THEN 0
    ELSE CHOOSE k \in 0..15 : /\ (2 ^ k >= p \/ k = 15)
                              /\ \A j \in 0..(k - 1) : 2 ^ j < p

\* The unsigned 24-bit number in three bytes, high byte first.
U24(c, i) == c[i] * 65536 + c[i + 1] * 256 + c[i + 2]

\* A code packed from valid fields has been unpacked.
PackedValidUnpacked ==
    /\ pc = "unpacked"
    /\ fields # NoFields
    /\ flipped = -1
    /\ ValidFields(fields)

\* Everything of the round trip but the type.
RoundTripButType ==
    /\ decoded.severity = fields.severity
    /\ decoded.msg = fields.msg
    /\ Abs(decoded.lat - fields.lat) <= 10
    /\ Abs(decoded.lon - fields.lon) <= 10
    /\ PopBucket(decoded.pop) = PopBucket(fields.pop)

\* C1 (as stated): for valid fields with a documented type, unpackFields(packFields(f))
\* reproduces type, severity and msg exactly, lat / lon to within 1/10,000 degree
\* and pop up to its log2 bucket.
C1_RoundTripAsStated ==
    PackedValidUnpacked => (decoded.type = fields.type /\ RoundTripButType)

\* C1 (amended): the same, except that type TS comes back as FL (TYPE_MAP sends
\* both to AlertType.Flood and the reverse map keeps the first code, FL).
C1_RoundTrip ==
    PackedValidUnpacked =>
        /\ decoded.type = (IF fields.type = "TS" THEN "FL" ELSE fields.type)
        /\ RoundTripButType

C1_Witness ==
    PackedValidUnpacked /\ fields.type = "TS" /\ decoded.type = "FL"

\* C2: for every input, valid or not, the packed code passes verifyChecksum:
\* bytes 17-18 hold the big-endian CRC-16 of bytes 0-16 and bytes 19-23 are zero.
C2_PackedChecksumValid ==
    (pc = "verified" /\ fields # NoFields /\ flipped = -1) =>
        /\ crcValid = TRUE
        /\ Len(code) = 24
        /\ code[18] * 256 + code[19] = crc16(SubSeq(code, 1, 17))
        /\ \A i \in 20..24 : code[i] = 0

C2_Witness ==
    pc = "verified" /\ fields # NoFields /\ ~ValidFields(fields) /\ crcValid = TRUE

\* C3: a code that passed verifyChecksum and then had one bit of bytes 0-16
\* inverted (any of the 136 positions) fails verifyChecksum.
C3_SingleBitDetected ==
    (pc = "verified" /\ flipped >= 0) => crcValid = FALSE

C3_Witness ==
    pc = "verified" /\ flipped = 135 /\ fields = NoFields /\ crcValid = FALSE

\* C4 (as stated): packFields clamps: severity to 1..9, the population exponent
\* to 0..15, and the latitude / longitude encodings into 0..2^24-1 instead of
\* wrapping modulo 2^24.
C4_ClampedNotWrapped ==
    pc = "packed" =>
        /\ Len(code) = 24
        /\ \A i \in 1..24 : code[i] \in 0..255
        /\ code[2] = Clamp(fields.severity, 1, 9)
        /\ code[9] = 16 * PopBucket(fields.pop)
        /\ U24(code, 3) = Clamp(RoundTenth(fields.lat) + 900000, 0, 16777215)
        /\ U24(code, 6) = Clamp(RoundTenth(fields.lon) + 1800000, 0, 16777215)

\* A code in the form packFields writes: a known type byte, severity 1..9, the low
\* nibble of byte 8 clear, no byte after a zero byte in the message, reserved zero.
Canonical(c) ==
    /\ c[1] \in 1..10
    /\ c[2] \in 1..9
    /\ c[9] % 16 = 0
    /\ \A i \in 10..16 : c[i] = 0 => c[i + 1] = 0
    /\ \A i \in 20..24 : c[i] = 0

\* C5 (as stated): every code with a valid CRC is reproduced byte for byte by
\* packFields(unpackFields(code)).
C5_RepackIdenticalAsStated ==
    (pc = "repacked" /\ crcValid = TRUE) => repacked = code

\* C5 (amended): every canonical code with a valid CRC is reproduced byte for byte.
C5_RepackIdentical ==
    (pc = "repacked" /\ crcValid = TRUE /\ Canonical(code)) => repacked = code

C5_Witness ==
    /\ pc = "repacked" /\ crcValid = TRUE /\ Canonical(code)
    /\ fields = NoFields /\ U24(code, 3) = 16777215 /\ code[9] = 176

\* The first 8 code units of a message, padded with zeros.
FirstEight(m) == [i \in 1..8 |-> IF i <= Len(m) THEN m[i] ELSE 0]

\* The bytes of a sequence that are not zero, in order.
RECURSIVE NonZero(_)
NonZero(bytes) ==
    IF bytes = <<>> THEN <<>>
    ELSE (IF Head(bytes) = 0 THEN <<>> ELSE <<Head(bytes)>>) \o NonZero(Tail(bytes))

\* The bytes of a sequence before its first zero.
RECURSIVE BeforeFirstZero(_)
BeforeFirstZero(bytes) ==
    IF bytes = <<>> \/ Head(bytes) = 0 THEN <<>>
    ELSE <<Head(bytes)>> \o BeforeFirstZero(Tail(bytes))

\* A code has been unpacked; if it was packed here, its msg was ASCII (NUL included).
AsciiUnpacked ==
    /\ pc = "unpacked"
    /\ flipped = -1
    /\ \A i \in 1..Len(fields.msg) : fields.msg[i] \in 0..127

\* packFields wrote the first 8 characters of msg, zero-padded.
PackWritesFirstEight ==
    fields # NoFields => SubSeq(code, 10, 17) = FirstEight(fields.msg)

\* C6 (as stated): packFields writes the first 8 characters zero-padded, and
\* unpackFields stops at the first 0x00 byte of bytes 9-16.
C6_StopsAtNulAsStated ==
    AsciiUnpacked =>
        /\ PackWritesFirstEight
        /\ decoded.msg = BeforeFirstZero(SubSeq(code, 10, 17))

\* C6 (amended): packFields writes the first 8 characters zero-padded, and
\* unpackFields drops every 0x00 byte of bytes 9-16 and keeps the others in order.
C6_SkipsNul ==
    AsciiUnpacked =>
        /\ PackWritesFirstEight
        /\ decoded.msg = NonZero(SubSeq(code, 10, 17))

C6_Witness ==
    /\ AsciiUnpacked /\ fields.msg = <<65, 0, 66>>
    /\ SubSeq(code, 10, 12) = <<65, 0, 66>> /\ decoded.msg = <<65, 66>>

\* The example's 24 bytes.  0x1AD9 is CRC-16/CCITT-FALSE (polynomial 0x1021, initial
\* value 0xFFFF, no final XOR) of bytes 0-16, obtained by polynomial long division.
ExampleCode == <<3, 7, 18, 237, 202, 9, 108, 91, 176, 84, 82, 65, 80, 80, 69, 68, 0,
                 26, 217, 0, 0, 0, 0, 0>>

\* C7: the example packs to type byte 0x03, severity 7, lat 1240522, lon 617563,
\* byte 8 = 0xB0 and the CRC bytes of CRC-16/CCITT-FALSE, and unpacks to
\* severity 7, pop 2048 and msg TRAPPED.
C7_LiteralExample ==
    (fields = Example /\ pc # "idle" /\ flipped = -1) =>
        /\ code = ExampleCode
        /\ code[1] = 3 /\ code[2] = 7 /\ code[9] = 176
        /\ U24(code, 3) = 1240522 /\ U24(code, 6) = 617563
        /\ pc \in {"unpacked", "repacked"} =>
              (decoded.severity = 7 /\ decoded.pop = 2048 /\ decoded.msg = MsgTrapped)

C7_Witness ==
    fields = Example /\ pc = "unpacked" /\ decoded.pop = 2048

\* pop is a power of two that is at least n, and no smaller power of two is
LeastPowerOfTwo(pop, n) ==
    /\ \E k \in 0..15 : pop = 2 ^ k
    /\ pop >= n
    /\ pop < 2 * n

RightSizes(p) == Len(p.code) = 24 /\ Len(p.signature) = 64 /\ Len(p.publicKey) = 32

\* Mutant: the parts are cut or zero-padded to their sizes instead of refused.
FitTo(bytes, n) == [i \in 1..n |-> IF i <= Len(bytes) THEN bytes[i] ELSE 0]

packFrameFitting(p) ==
    [error |-> "none",
     frame |-> FitTo(p.code, 24) \o FitTo(p.signature, 64) \o FitTo(p.publicKey, 32)]

\* Mutant: the public key laid out before the signature.
packFrameKeyFirst(p) ==
    IF RightSizes(p)
    THEN [error |-> "none", frame |-> p.code \o p.publicKey \o p.signature]
    ELSE [error |-> "LengthMismatch", frame |-> <<>>]

packFrame(p) ==
    IF RightSizes(p)
    THEN [error |-> "none", frame |-> p.code \o p.signature \o p.publicKey]
    ELSE [error |-> "LengthMismatch", frame |-> <<>>]

unpackFrame(f) ==
    IF Len(f) = 120
    THEN [error |-> "none",
          parts |-> [code |-> SubSeq(f, 1, 24), signature |-> SubSeq(f, 25, 88),
                     publicKey |-> SubSeq(f, 89, 120)]]
    ELSE [error |-> "TruncatedFrame", parts |-> NoParts]

\* n bytes counting up from seed.
Pattern(n, seed) == [i \in 1..n |-> (seed + i) % 256]

Skews == (-MaxLenSkew)..MaxLenSkew

PartsInputs ==
    {[code |-> Pattern(24 + a, sc), signature |-> Pattern(64 + b, ss),
      publicKey |-> Pattern(32 + c, sk)] :
        a \in Skews, b \in Skews, c \in Skews, sc \in {0, 24}, ss \in {64, 99}, sk \in {160, 200}}

FrameInputs == {Pattern(120 + a, s) : a \in Skews, s \in {0, 255}}

PackFrame(p) ==
    /\ fpc = "idle"
    /\ parts' = p
    /\ frame' = packFrame(p).frame
    /\ ferr' = packFrame(p).error
    /\ fpc' = "packed"
    /\ UNCHANGED <<split, frameOthers>>

ReceiveFrame(f) ==
    /\ fpc = "idle"
    /\ frame' = f
    /\ fpc' = "received"
    /\ UNCHANGED <<parts, split, ferr, frameOthers>>

UnpackFrame ==
    /\ fpc \in {"packed", "received"}
    /\ ferr = "none"
    /\ split' = unpackFrame(frame).parts
    /\ ferr' = unpackFrame(frame).error
    /\ fpc' = "unpacked"
    /\ UNCHANGED <<parts, frame, frameOthers>>

NextFrame ==
    \/ \E p \in PartsInputs : PackFrame(p)
    \/ \E f \in FrameInputs : ReceiveFrame(f)
    \/ UnpackFrame

SpecFrame == Init /\ [][NextFrame]_vars

\* C8: correctly sized parts pack to exactly 120 bytes, code at 0-23, signature
\* at 24-87, public key at 88-119, and unpackFrame gives the three parts back.
C8_FrameRoundTrip ==
    (fpc \in {"packed", "unpacked"} /\ parts # NoParts /\ RightSizes(parts)) =>
        /\ Len(frame) = 120
        /\ \A i \in 1..24 : frame[i] = parts.code[i]
        /\ \A i \in 1..64 : frame[24 + i] = parts.signature[i]
        /\ \A i \in 1..32 : frame[88 + i] = parts.publicKey[i]
        /\ fpc = "unpacked" => (split = parts /\ ferr = "none")

C8_Witness ==
    fpc = "unpacked" /\ RightSizes(parts) /\ split = parts /\ frame[25] # frame[89]

\* C9: packFrame fails with LengthMismatch on any part of the wrong size and
\* unpackFrame with TruncatedFrame on any frame that is not 120 bytes; neither
\* leaves a frame or parts behind.
C9_MisSizedRefused ==
    /\ (fpc = "packed" /\ ~RightSizes(parts)) =>
            (ferr = "LengthMismatch" /\ frame = <<>> /\ ~ENABLED UnpackFrame)
    /\ (fpc = "unpacked" /\ Len(frame) # 120) =>
            (ferr = "TruncatedFrame" /\ split = NoParts)

C9_Witness ==
    fpc = "unpacked" /\ Len(frame) = 119 /\ ferr = "TruncatedFrame"

(***************************************************************************)
(* The hex transport encoding.  A string is a sequence of one-character     *)
(* strings.                                                                 *)
(***************************************************************************)
LowerDigits == <<"0", "1", "2", "3", "4", "5", "6", "7", "8", "9",
                 "a", "b", "c", "d", "e", "f">>
UpperDigits == <<"A", "B", "C", "D", "E", "F">>

IsHexDigit(ch) ==
    \/ \E i \in 1..16 : LowerDigits[i] = ch
    \/ \E i \in 1..6 : UpperDigits[i] = ch

DigitValue(ch) ==
    IF \E i \in 1..16 : LowerDigits[i] = ch
    THEN (CHOOSE i \in 1..16 : LowerDigits[i] = ch) - 1
    ELSE (CHOOSE i \in 1..6 : UpperDigits[i] = ch) + 9

\* parseInt(str, 16): white space is skipped, then a sign, then a 0x prefix; the
\* longest run of hex digits that follows is the number, NaN if it is empty.
RECURSIVE SkipSpace(_)
SkipSpace(str) ==
    IF str # <<>> /\ Head(str) = " " THEN SkipSpace(Tail(str)) ELSE str

SkipPrefix(str) ==
    IF Len(str) >= 2 /\ str[1] = "0" /\ str[2] \in {"x", "X"}
    THEN SubSeq(str, 3, Len(str)) ELSE str

\* The value of the leading hex digits of str after acc, -1 (NaN) if none so far.
RECURSIVE DigitRun(_, _)
DigitRun(str, acc) ==
    IF str = <<>> \/ ~IsHexDigit(Head(str)) THEN acc
    ELSE DigitRun(Tail(str), (IF acc < 0 THEN 0 ELSE acc) * 16 + DigitValue(Head(str)))

parseInt16(str) ==
    LET t == SkipSpace(str)
        neg == t # <<>> /\ Head(t) = "-"
        u == IF t # <<>> /\ Head(t) \in {"-", "+"} THEN Tail(t) ELSE t
        mag == DigitRun(SkipPrefix(u), -1)
    IN [isNaN |-> mag < 0, number |-> IF mag < 0 THEN 0 ELSE IF neg THEN -mag ELSE mag]

\* Storing a number or NaN into a Uint8Array element.
StoreUint8(v) == IF v.isNaN THEN 0 ELSE ToUint8(v.number)

\* new Uint8Array(hex.length / 2) has floor(hex.length / 2) elements; the loop
\* stores parseInt of each 2-character slice, and a store past the end (the
\* last, 1-character slice of an odd-length string) is dropped.  Nothing throws.
hexToBytes(str) ==
    [error |-> "none",
     bytes |-> [k \in 1..(Len(str) \div 2) |->
                    StoreUint8(parseInt16(SubSeq(str, 2 * k - 1, 2 * k)))]]

\* b.toString(16).padStart(2, '0') of each byte, joined.
RECURSIVE bytesToHex(_)
bytesToHex(bytes) ==
    IF bytes = <<>> THEN <<>>
    ELSE <<LowerDigits[(Head(bytes) \div 16) + 1], LowerDigits[(Head(bytes) % 16) + 1]>>
         \o bytesToHex(Tail(bytes))

\* Characters typed or pasted: digits of both cases, a letter that is no digit,
\* the x of a 0x prefix, a sign, a blank.
HexAlphabet == {"0", "a", "F", "g", "x", "-", " "}

RECURSIVE SeqsUpTo(_, _)
SeqsUpTo(S, n) ==
    IF n = 0 THEN {<<>>}
    ELSE LET shorter == SeqsUpTo(S, n - 1)
         IN shorter \cup {Append(q, x) : q \in {r \in shorter : Len(r) = n - 1}, x \in S}

HexInputs == SeqsUpTo(HexAlphabet, MaxHexLen)
ByteInputs == SeqsUpTo({0, 9, 10, 171, 255}, MaxBytesLen)

EnterHex(str) ==
    /\ hpc = "idle"
    /\ hex' = str
    /\ hpc' = "entered"
    /\ UNCHANGED <<hexBytes, hexOut, herr, hexOthers>>

BytesToHex(bytes) ==
    /\ hpc = "idle"
    /\ hexBytes' = bytes
    /\ hex' = bytesToHex(bytes)
    /\ hpc' = "encoded"
    /\ UNCHANGED <<hexOut, herr, hexOthers>>

HexToBytes ==
    /\ hpc \in {"entered", "encoded"}
    /\ hexOut' = hexToBytes(hex).bytes
    /\ herr' = hexToBytes(hex).error
    /\ hpc' = IF hpc = "encoded" THEN "roundtrip" ELSE "decoded"
    /\ UNCHANGED <<hexBytes, hex, hexOthers>>

NextHex ==
    \/ \E str \in HexInputs : EnterHex(str)
    \/ \E bytes \in ByteInputs : BytesToHex(bytes)
    \/ HexToBytes

SpecHex == Init /\ [][NextHex]_vars

\* A string hexToBytes must refuse: odd length, or a character that is no hex digit.
InvalidHexString(str) ==
    Len(str) % 2 = 1 \/ \E i \in 1..Len(str) : ~IsHexDigit(str[i])

HexRejectsInvalid ==
    (hpc = "decoded" /\ InvalidHexString(hex)) => (herr = "InvalidHex" /\ hexOut = <<>>)

HexRoundTrip ==
    hpc = "roundtrip" => (hexOut = hexBytes /\ herr = "none")

HexLowercase ==
    hpc \in {"encoded", "roundtrip"} =>
        /\ Len(hex) = 2 * Len(hexBytes)
        /\ \A i \in 1..Len(hex) : \E j \in 1..16 : hex[i] = LowerDigits[j]

\* C10 (as stated): hexToBytes fails with InvalidHex on every string of odd length
\* or with a non-hex character, never returning bytes for it; and for valid input
\* hexToBytes(bytesToHex(b)) = b, bytesToHex(b) lowercase with 2 * len(b) characters.
C10_HexAsStated == HexRejectsInvalid /\ HexRoundTrip /\ HexLowercase

(***************************************************************************)
(* The decode paths: decodeMessage (codec.ts, first revision, the one the   *)
(* server route calls with four arguments) and its callers.  The tri-state  *)
(* boolean | null is held as "true" / "false" / "null".                     *)
(***************************************************************************)
\* typeof codeInput === 'string' ? hexToBytes(codeInput) : codeInput
codeOf(codeInput, isString) ==
    IF isString THEN hexToBytes(bytesToHex(codeInput)).bytes ELSE codeInput

\* if (!crcValid && !skipCrc) throw
decodeRejectsAlways(crcOk, skipCrc) == ~crcOk

decodeRejects(crcOk, skipCrc) == ~crcOk /\ ~skipCrc

\* verified ?? null, on the verified of the request body ("absent" when it has none)
orNull(v) == IF v = "absent" THEN "null" ELSE v

\* !!skipCrc, on the skipCrc of the request body
truthy(v) == v = "true"

\* res.json({ text, fields, crcValid }): the route's answer leaves verified out
routeResponse(result) == [text |-> result.text, fields |-> result.fields,
                          crcValid |-> result.crcValid]

\* decResult.crcValid ? 'verified' : 'unverified'
panelStatus(decResult) == IF decResult.crcValid THEN "verified" ELSE "unverified"

\* the codes handed to the decode paths: right and wrong checksums
DecodeBodies ==
    {<<t, 7>> \o ExampleCoords \o <<176>> \o packMsg(m) :
        t \in {3, 11}, m \in {MsgTrapped, <<65, 0, 66>>}}

DecodeCodes ==
    {packFields(Example)}
    \cup {MkReceived(b, off, Zeros(5)) : b \in DecodeBodies, off \in {0, 1}}

\* what a call site and decodeMessage together leave alone
callOthers == <<codecVars, frameVars, hexVars, toneVars, retryVars, listenVars,
                queueVars, hookVars, logVars, keyVars>>

\* a caller enters decodeMessage
EnterDecode(who, c, verified, skipCrc, sig, shown, from, wanted) ==
    /\ dpc = "idle"
    /\ origin' = from
    /\ asked' = wanted
    /\ dpc' = "called"
    /\ dcaller' = who
    /\ dinput' = c
    /\ dverified' = verified
    /\ dskip' = skipCrc
    /\ sigResult' = sig
    /\ status' = shown
    /\ UNCHANGED <<dcrc, dfields, dcalls, dresult, derr, callOthers>>

\* cli decode: verifySignature is called only when --signature and --pubkey are given;
\* the hex is an argument of the command
CliDecode(c, sig) ==
    EnterDecode("cli", c, IF sig = "none" THEN "null" ELSE sig, FALSE, sig, "none",
                "manual", FALSE)

\* cli demo: the signature is always verified, and the outcome shown, before decoding;
\* the code is decoded.data of decodePCM, handed over with three arguments
DemoDecode(c, valid) ==
    EnterDecode("demo", c, valid, FALSE, valid,
                IF valid = "true" THEN "verified" ELSE "failed", "acoustic", FALSE)

\* POST /decode with any body {hex, verified, skipCrc}
PostDecode(c, v, sk) ==
    EnterDecode("http", c, orNull(v), truthy(sk), "none", "none", "none", FALSE)

\* DecodePanel.decodeHex: api.decode(hex, undefined, skipCrc) posts {hex, verified};
\* the client function has two parameters, so skipCrc does not reach the body
DecodeHex(c, skipCrc, from) ==
    EnterDecode("panel", c, orNull("absent"), truthy("absent"), "none", "none",
                from, skipCrc)

\* DecodePanel.handleStop, lines 51-63: decodeHex(codeHex, true)
HandleStop(c) == DecodeHex(c, TRUE, "acoustic")

\* DecodePanel.handleHexDecode, lines 65-73: decodeHex(cleaned, false)
HandleHexDecode(c) == DecodeHex(c, FALSE, "manual")

\* services decodeHex(hex, verified, skipCrc), as AlertScreen calls it: the three are
\* posted to /decode
ServiceDecodeHex(c, verified, skipCrc, from) ==
    EnterDecode("alert", c, orNull(verified), skipCrc, "none", "none", from, skipCrc)

\* AlertScreen.handleDecodeHex, lines 51-63: decodeHex(cleanedHex, null, false)
HandleDecodeHex(c) == ServiceDecodeHex(c, "null", FALSE, "manual")

\* AlertScreen.handleDecodeAudio, lines 101-113:
\* decodeHex(hexStr, null, decoded.errorPositions.length > 0)
HandleDecodeAudio(c, flagged) == ServiceDecodeHex(c, "null", flagged, "acoustic")

\* decodeMessage, lines 263-268
DecodeVerifyChecksum ==
    /\ dpc = "called"
    /\ LET ok == verifyChecksum(codeOf(dinput, dcaller # "demo"))
       IN /\ dcrc' = ok
          /\ IF decodeRejects(ok, dskip)
             THEN dpc' = "thrown" /\ derr' = "checksum"
             ELSE dpc' = "checked" /\ derr' = derr
    /\ UNCHANGED <<dcaller, dinput, dskip, dverified, dfields, dcalls, dresult,
                   sigResult, status, decodeOthers>>

\* decodeMessage, line 270
DecodeUnpackFields ==
    /\ dpc = "checked"
    /\ dfields' = unpackFields(codeOf(dinput, dcaller # "demo"))
    /\ dpc' = "unpacked"
    /\ UNCHANGED <<dcaller, dinput, dskip, dverified, dcrc, dcalls, dresult, derr,
                   sigResult, status, decodeOthers>>

\* decodeMessage, lines 272-281: the text reconstruction answers or fails
DecodeExpand(answers) ==
    /\ dpc = "unpacked"
    /\ dcalls' = dcalls + 1
    /\ IF answers
       THEN /\ dresult' = [text |-> "alert", fields |-> dfields,
                           verified |-> dverified, crcValid |-> dcrc]
            /\ dpc' = "returned"
            /\ derr' = derr
       ELSE /\ dresult' = dresult
            /\ dpc' = "thrown"
            /\ derr' = "service"
    /\ UNCHANGED <<dcaller, dinput, dskip, dverified, dcrc, dfields, sigResult, status,
                   decodeOthers>>

\* cli decode, lines 31-44: [VERIFIED] / [FAILED] follow the signature check
CliReport ==
    /\ dcaller = "cli"
    /\ dpc \in {"returned", "thrown"}
    /\ status' = IF dpc = "thrown" THEN "error"
                 ELSE IF dverified = "true" THEN "verified"
                 ELSE IF dverified = "false" THEN "failed" ELSE "none"
    /\ dpc' = "reported"
    /\ UNCHANGED <<dcaller, dinput, dskip, dverified, dcrc, dfields, dcalls, dresult,
                   derr, sigResult, decodeOthers>>

\* DecodePanel.decodeHex, lines 30-47, on the route's answer
PanelReport ==
    /\ dcaller = "panel"
    /\ dpc \in {"returned", "thrown"}
    /\ status' = IF dpc = "thrown" THEN "failed"
                 ELSE panelStatus(routeResponse(dresult))
    /\ dpc' = "reported"
    /\ UNCHANGED <<dcaller, dinput, dskip, dverified, dcrc, dfields, dcalls, dresult,
                   derr, sigResult, decodeOthers>>

TriState == {"true", "false"}

NextDecode ==
    \/ \E c \in DecodeCodes, sig \in TriState \cup {"none"} : CliDecode(c, sig)
    \/ \E c \in DecodeCodes, valid \in TriState : DemoDecode(c, valid)
    \/ \E c \in DecodeCodes, v \in TriState \cup {"absent"}, sk \in TriState \cup {"absent"} :
          PostDecode(c, v, sk)
    \/ \E c \in DecodeCodes : HandleStop(c)
    \/ \E c \in DecodeCodes : HandleHexDecode(c)
    \/ \E c \in DecodeCodes : HandleDecodeHex(c)
    \/ \E c \in DecodeCodes, flagged \in BOOLEAN : HandleDecodeAudio(c, flagged)
    \/ DecodeVerifyChecksum
    \/ DecodeUnpackFields
    \/ \E answers \in BOOLEAN : DecodeExpand(answers)
    \/ CliReport
    \/ PanelReport

SpecDecode == Init /\ [][NextDecode]_vars

\* the CRC of the code handed in, computed apart from decodeMessage
CrcMatches == crc16(SubSeq(dinput, 1, 17)) = dinput[18] * 256 + dinput[19]

Returned == dpc \in {"returned", "reported"} /\ derr = "none"

\* C11: in strict mode a code whose CRC does not match makes decodeMessage fail with
\* the checksum error before any field is unpacked and before the text reconstruction
\* is called; in lenient mode decodeMessage goes on and what it returns has
\* crcValid = false; when the CRC matches what it returns has crcValid = true.
C11_StrictLenient ==
    dpc \notin {"idle", "called"} =>
        /\ (~CrcMatches /\ ~dskip) =>
              /\ derr = "checksum"
              /\ dfields = NoFields
              /\ dcalls = 0
              /\ dresult = NoResult
        /\ (~CrcMatches /\ dskip) =>
              /\ derr # "checksum"
              /\ Returned => dresult.crcValid = FALSE
        /\ CrcMatches =>
              /\ derr # "checksum"
              /\ Returned => dresult.crcValid = TRUE

C11_Witness ==
    /\ dpc = "returned"
    /\ dskip
    /\ ~CrcMatches
    /\ dresult.crcValid = FALSE
    /\ dresult.fields # NoFields

\* C12: decodeMessage returns verified as it was passed in, and no decode path shows
\* the status 'verified' unless verifySignature returned true for the code.
C12_NeverUpgraded ==
    /\ Returned => dresult.verified = dverified
    /\ status = "verified" => sigResult = "true"

\* C24 (as stated): at every call site a decode of an acoustically received code
\* asks for the lenient mode (skipCrc true) and a decode of a hand-entered or pasted
\* hex asks for the strict mode (skipCrc false): an acoustically received code
\* whose CRC does not match is never rejected for it, and a hand-entered one whose
\* CRC does not match is never accepted.
C24_LenientIffAcoustic ==
    /\ origin = "acoustic" => asked
    /\ origin = "manual" => ~asked
    /\ (origin = "acoustic" /\ dpc \notin {"idle", "called"} /\ ~CrcMatches) =>
          derr # "checksum"
    /\ (origin = "manual" /\ dpc \notin {"idle", "called"} /\ ~CrcMatches) =>
          derr = "checksum"

(***************************************************************************)
(* The acoustic modulator of the web client: buildTones                     *)
(* (hooks/useAcousticTransmit.ts).  Times are seconds in the source and     *)
(* milliseconds here: 0.120 s is 120.                                       *)
(***************************************************************************)
NIBBLE_FREQS == <<1000, 1200, 1400, 1600, 1800, 2000, 2200, 2400,
                  2600, 2800, 3000, 3200, 3400, 3600, 3800, 4000>>
TONE_DURATION == 100
TONE_STEP == 120
PREAMBLE_LOW == 500
PREAMBLE_HIGH == 4500
PREAMBLE_TONE_DURATION == 120
PREAMBLE_CYCLES == 4
POSTAMBLE_FREQ == 4500
POSTAMBLE_DURATION == 300

Tone(f, start, d) == [frequency |-> f, startTime |-> start, duration |-> d]

\* (data[i] >> 4) & 0x0F
highNibbleUnshifted(b) == b % 16

highNibble(b) == ShiftRight(b, 4) % 16

\* data[i] & 0x0F
lowNibble(b) == b % 16

\* one turn of the preamble loop, lines 29-32: the two tones pushed from time on
preambleCycleLowOnly(time) ==
    <<Tone(PREAMBLE_LOW, time, PREAMBLE_TONE_DURATION)>>

preambleCycle(time) ==
    <<Tone(PREAMBLE_LOW, time, PREAMBLE_TONE_DURATION),
      Tone(PREAMBLE_HIGH, time + PREAMBLE_TONE_DURATION, PREAMBLE_TONE_DURATION)>>

\* one turn of the data loop, lines 35-38: the two tones pushed from time on
dataTonesTogether(b, time) ==
    <<Tone(NIBBLE_FREQS[highNibble(b) + 1], time, TONE_DURATION),
      Tone(NIBBLE_FREQS[lowNibble(b) + 1], time, TONE_DURATION)>>

dataTones(b, time) ==
    <<Tone(NIBBLE_FREQS[highNibble(b) + 1], time, TONE_DURATION),
      Tone(NIBBLE_FREQS[lowNibble(b) + 1], time + TONE_STEP, TONE_DURATION)>>

ToneInputs ==
    {<<b>> : b \in 0..255}
    \cup SeqsUpTo({0, 165, 255}, MaxToneBytes)
    \cup {Pattern(120, 0)}

\* buildTones is entered: lines 26-27
BuildTones(data) ==
    /\ tpc = "idle"
    /\ tdata' = data
    /\ tones' = <<>>
    /\ ttime' = 0
    /\ ti' = 0
    /\ tpc' = "preamble"
    /\ UNCHANGED toneOthers

\* lines 28-33
PreambleCycle ==
    /\ tpc = "preamble"
    /\ ti < PREAMBLE_CYCLES
    /\ tones' = tones \o preambleCycle(ttime)
    /\ ttime' = ttime + 2 * PREAMBLE_TONE_DURATION
    /\ ti' = IF ti + 1 < PREAMBLE_CYCLES THEN ti + 1 ELSE 0
    /\ tpc' = IF ti + 1 < PREAMBLE_CYCLES THEN "preamble" ELSE "data"
    /\ UNCHANGED <<tdata, toneOthers>>

\* lines 34-39
DataByte ==
    /\ tpc = "data"
    /\ ti < Len(tdata)
    /\ tones' = tones \o dataTones(tdata[ti + 1], ttime)
    /\ ttime' = ttime + 2 * TONE_STEP
    /\ ti' = ti + 1
    /\ UNCHANGED <<tpc, tdata, toneOthers>>

\* lines 40-41
Postamble ==
    /\ tpc = "data"
    /\ ti = Len(tdata)
    /\ tones' = Append(tones, Tone(POSTAMBLE_FREQ, ttime, POSTAMBLE_DURATION))
    /\ tpc' = "done"
    /\ UNCHANGED <<tdata, ttime, ti, toneOthers>>

NextTones ==
    \/ \E data \in ToneInputs : BuildTones(data)
    \/ PreambleCycle
    \/ DataByte
    \/ Postamble

SpecTones == Init /\ [][NextTones]_vars

\* how many tones of the timeline have the duration d
CountDuration(d) == Cardinality({k \in 1..Len(tones) : tones[k].duration = d})

\* the number of tones that precede the data tones
PreambleTones == 2 * PREAMBLE_CYCLES

\* C13: every byte gives exactly two data tones, the first at the table entry of its
\* high nibble and the second at the entry of its low nibble; entry i of the table is
\* 1000 + 200 * i Hz, so distinct nibbles have distinct frequencies and no data
\* frequency is a sentinel frequency (500 or 4500 Hz).
C13_NibbleTones ==
    /\ \A i \in 0..15 : NIBBLE_FREQS[i + 1] = 1000 + 200 * i
    /\ \A i, j \in 1..16 : i # j => NIBBLE_FREQS[i] # NIBBLE_FREQS[j]
    /\ \A i \in 1..16 : NIBBLE_FREQS[i] \notin {500, 4500}
    /\ tpc \in {"data", "done"} =>
         /\ Len(tones) >= PreambleTones + 2 * ti
         /\ \A k \in 1..ti :
              /\ tones[PreambleTones + 2 * k - 1].frequency = 1000 + 200 * (tdata[k] \div 16)
              /\ tones[PreambleTones + 2 * k].frequency = 1000 + 200 * (tdata[k] % 16)
    /\ tpc = "done" => CountDuration(TONE_DURATION) = 2 * Len(tdata)

C13_Witness ==
    /\ tpc = "done"
    /\ tdata = <<165>>
    /\ tones[PreambleTones + 1].frequency = 3000
    /\ tones[PreambleTones + 2].frequency = 2000

\* C19: the timeline starts at time 0 with PREAMBLE_CYCLES pairs of (low sentinel,
\* high sentinel) tones, goes on with the data tones in byte order, high nibble before
\* low nibble, consecutive starts one tone step apart, and ends with exactly one
\* postamble tone; each tone ends no later than the next one starts.
C19_OrderedNoOverlap ==
    /\ Len(tones) > 0 => tones[1].startTime = 0
    /\ \A k \in 1..Min2(Len(tones), PreambleTones) :
          /\ tones[k].frequency = IF k % 2 = 1 THEN PREAMBLE_LOW ELSE PREAMBLE_HIGH
          /\ tones[k].startTime = (k - 1) * PREAMBLE_TONE_DURATION
    /\ tpc \in {"data", "done"} =>
          /\ Len(tones) >= PreambleTones
          /\ \A k \in 1..ti :
                /\ tones[PreambleTones + 2 * k - 1].frequency
                      = NIBBLE_FREQS[(tdata[k] \div 16) + 1]
                /\ tones[PreambleTones + 2 * k].frequency
                      = NIBBLE_FREQS[(tdata[k] % 16) + 1]
          /\ \A k \in (PreambleTones + 1)..(PreambleTones + 2 * ti - 1) :
                tones[k + 1].startTime = tones[k].startTime + TONE_STEP
    /\ tpc = "done" =>
          /\ Len(tones) = PreambleTones + 2 * Len(tdata) + 1
          /\ tones[Len(tones)].frequency = POSTAMBLE_FREQ
          /\ CountDuration(POSTAMBLE_DURATION) = 1
    /\ \A k \in 1..(Len(tones) - 1) :
          tones[k].startTime + tones[k].duration <= tones[k + 1].startTime

C19_Witness ==
    /\ tpc = "done"
    /\ Len(tdata) = 120
    /\ tones[Len(tones)].startTime = 8 * 120 + 240 * 120
    /\ tones[Len(tones) - 1].startTime + 100 < tones[Len(tones)].startTime

retries == 3

\* msg.includes(pat)
includes(msg, pat) ==
    \E k \in 0..(Len(msg) - Len(pat)) : SubSeq(msg, k + 1, k + Len(pat)) = pat

\* error instanceof Error ? error.message : String(error)
messageOf(error) == error.text

\* msg.includes('429') && i < retries - 1
retriesOn(msg, i) == includes(msg, <<"4", "2", "9">>) /\ i < retries - 1

\* 4000 * (i + 1)
waitOf(i) == 4000 * (i + 1)

ErrorTexts ==
    {<<"4", "2", "9">>, <<"[", "4", "2", "9", "]">>, <<"4", "2", " ", "9">>,
     <<"5", "0", "3">>, <<>>}

\* encodeMessage or decodeMessage calls withRetry: i = 0
WithRetry(who) ==
    /\ rpc = "idle"
    /\ rcaller' = who
    /\ ri' = 0
    /\ rpc' = "calling"
    /\ UNCHANGED <<rcalls, rwaits, rerrs, rthrown, retryOthers>>

\* line 167: fn() resolves and withRetry returns its value
FnResolves ==
    /\ rpc = "calling"
    /\ ri < retries
    /\ rcalls' = rcalls + 1
    /\ rpc' = "returned"
    /\ UNCHANGED <<rcaller, ri, rwaits, rerrs, rthrown, retryOthers>>

\* lines 167-177: fn() rejects; the catch block starts a wait or rethrows
FnRejects(isError, text) ==
    /\ rpc = "calling"
    /\ ri < retries
    /\ rcalls' = rcalls + 1
    /\ LET error == [attempt |-> rcalls + 1, isError |-> isError, text |-> text]
       IN /\ rerrs' = Append(rerrs, error)
          /\ IF retriesOn(messageOf(error), ri)
             THEN /\ rwaits' = Append(rwaits, waitOf(ri))
                  /\ rpc' = "waiting"
                  /\ rthrown' = rthrown
             ELSE /\ rwaits' = rwaits
                  /\ rpc' = "thrown"
                  /\ rthrown' = error
    /\ UNCHANGED <<rcaller, ri, retryOthers>>

\* lines 173-174: the timer fires; continue runs i++
TimerFires ==
    /\ rpc = "waiting"
    /\ ri' = ri + 1
    /\ rpc' = "calling"
    /\ UNCHANGED <<rcaller, rcalls, rwaits, rerrs, rthrown, retryOthers>>

NextRetry ==
    \/ \E who \in {"encodeMessage", "decodeMessage"} : WithRetry(who)
    \/ FnResolves
    \/ \E isError \in BOOLEAN, text \in ErrorTexts : FnRejects(isError, text)
    \/ TimerFires

SpecRetry == Init /\ [][NextRetry]_vars

Has429(error) == \E k \in 1..(Len(error.text) - 2) :
    error.text[k] = "4" /\ error.text[k + 1] = "2" /\ error.text[k + 2] = "9"

\* a retry happens only after an error whose message contains '429'
RetryOnly429 ==
    \A k \in 1..Len(rerrs) : (k < Len(rerrs) \/ rpc \in {"waiting"}) => Has429(rerrs[k])

\* any other error is rethrown at once, and it is the error fn threw
RetryRethrowsOthers ==
    (rerrs # <<>> /\ ~Has429(rerrs[Len(rerrs)])) =>
        /\ rpc = "thrown"
        /\ rthrown = rerrs[Len(rerrs)]

\* fn is called at most retries times, and the last failure throws the original error
RetryAtMost ==
    /\ rcalls <= 3
    /\ Len(rerrs) = 3 => (rpc = "thrown" /\ rthrown = rerrs[3])

\* the waits made are the first ones of 4 s, 8 s, 12 s
RetryWaitsPrefix ==
    /\ Len(rwaits) <= 3
    /\ \A k \in 1..Len(rwaits) : rwaits[k] = <<4000, 8000, 12000>>[k]

\* a run of 429 answers goes through the whole schedule: 4 s, then 8 s, then 12 s
RetryBackoffComplete ==
    (rpc = "thrown" /\ \A k \in 1..Len(rerrs) : Has429(rerrs[k])) =>
        rwaits = <<4000, 8000, 12000>>

\* C18: a call wrapped in withRetry is retried only when the error message contains
\* '429', waiting 4 s, then 8 s, then 12 s between successive attempts; any other
\* error is rethrown after a single call; fn is called at most 3 times, and when the
\* last attempt fails the original error is thrown.
C18_RetryAsStated ==
    /\ RetryOnly429
    /\ RetryRethrowsOthers
    /\ RetryAtMost
    /\ RetryWaitsPrefix
    /\ RetryBackoffComplete

(***************************************************************************)
(* The acoustic demodulator of the web client: useAcousticListen            *)
(* (hooks/useAcousticListen.ts).  A capture is a number of 4096-sample      *)
(* chunks at the AudioContext's sample rate.  Its samples are not held one  *)
(* by one; what the code measures on them is given by the kind of capture:  *)
(*   "zero"   every sample is 0;                                            *)
(*   "clean"  silence up to sample loudAt, then a frame played loud;        *)
(*   "weak"   silence up to sample loudAt, then a signal in which no tone   *)
(*            stands out.                                                   *)
(* Magnitudes are whole numbers, preamble scores are in tenths and nibble   *)
(* confidences in thousandths.  Math.floor(s * sampleRate) for a duration   *)
(* of m milliseconds is (m * sampleRate) \div 1000, which is what IEEE      *)
(* doubles give at the sample rates used here.                              *)
(***************************************************************************)
SampleRates == {8000, 44100}
ChunkSize == 4096

\* Math.floor(seconds * sampleRate), the duration given in milliseconds
Samples(ms, sr) == (ms * sr) \div 1000

\* findEnergyOnset: windowSize and step, lines 61-62
onsetWindow(sr) == Samples(20, sr)

onsetStepOfKilohertz(sr) == Samples(5, sr \div 1000)

onsetStep(sr) == Samples(5, sr)

\* findEnergyOnset, lines 64-78: the energy of the window at p is above the threshold.
\* A signal that starts inside the first 100 ms raises the noise floor with it.
energyAbove(kind, at, sr, p) ==
    /\ kind # "zero"
    /\ at >= Samples(100, sr)
    /\ p + onsetWindow(sr) > at

\* detectPreamble: windowSize, preambleLength, step, lines 87-96
preambleWindow(sr) == Samples(PREAMBLE_TONE_DURATION, sr)
totalTones == PREAMBLE_CYCLES * 2
preambleLength(sr) == totalTones * preambleWindow(sr)
preambleStep(sr) == preambleWindow(sr) \div 8
searchStart(sr, onset) == Max2(0, onset - preambleWindow(sr))
searchEnd(sr, len, onset) ==
    Min2(len - preambleLength(sr), searchStart(sr, onset) + Samples(2000, sr))

\* detectPreamble, lines 101-112: the score of the candidate position p, in tenths.
\* Each of the 8 windows scores by the share of it that lies on its own tone; the
\* windows of a weak capture sum to the acceptance threshold itself.
scoreAt(kind, at, sr, p) ==
    LET w == preambleWindow(sr)
        d == IF p < at THEN at - p ELSE p - at
    IN IF kind = "clean" /\ 2 * d < w THEN (10 * totalTones * (w - d)) \div w
       ELSE IF kind = "weak" THEN totalTones * 4
       ELSE 0

\* bestScore >= totalTones * 0.4
preambleFoundAtThreshold(score) == score >= totalTones * 4

\* bestScore > totalTones * 0.4, in tenths
preambleFound(score) == score > totalTones * 4

\* stopAndDecode, lines 190-195
toneSamples(sr) == Samples(TONE_DURATION, sr)
stepSamples(sr) == Samples(TONE_STEP, sr)
skipSamples(sr) == Samples(15, sr)
analysisLen(sr) == toneSamples(sr) - Samples(20, sr)
windowStart(sr, from, i) == from + i * stepSamples(sr) + skipSamples(sr)
windowEnd(sr, from, i) == windowStart(sr, from, i) + analysisLen(sr)

\* if (end > pcm.length), line 203
pastEndLate(end, len) == end > len + ChunkSize

pastEnd(end, len) == end > len

\* goertzelHann at the 16 data frequencies on the window of nibble i, line 208
spectrum(kind, i) ==
    LET n == (5 * i + 3) % 16
    IN [k \in 1..16 |->
          IF kind = "clean" THEN (IF k = n + 1 THEN 1000 ELSE IF k = ((n + 1) % 16) + 1 THEN 10 ELSE 0)
          ELSE IF kind = "weak" THEN (IF k = n + 1 \/ k = ((n + 1) % 16) + 1 THEN 50 ELSE 0)
          ELSE 0]

\* lines 206-211: the strongest and the second strongest of the 16 magnitudes
RECURSIVE pickFrom(_, _, _)
pickFrom(mags, n, st) ==
    IF n >= 16 THEN st
    ELSE LET mag == mags[n + 1]
         IN pickFrom(mags, n + 1,
                IF mag > st.bestMag
                THEN [bestMag |-> mag, secondBest |-> st.bestMag, bestNibble |-> n]
                ELSE IF mag > st.secondBest THEN [st EXCEPT !.secondBest = mag]
                ELSE st)

pickBest(mags) == pickFrom(mags, 0, [bestMag |-> 0, secondBest |-> 0, bestNibble |-> 0])

\* sum > 0 ? bestMag / sum : 0, in thousandths
confOf(best) ==
    LET sum == best.bestMag + best.secondBest
    IN IF sum > 0 THEN (1000 * best.bestMag) \div sum ELSE 0

\* conf < 0.55
lowConfidenceAboveZero(conf) == conf < 550 /\ conf > 0

lowConfidence(conf) == conf < 550

\* totalConfidence / totalNibbles, in thousandths; 0 / 0 is NaN
NaN == -1
meanConfidence(total, count) == IF count = 0 THEN NaN ELSE total \div count

\* a | b on bytes
BitOr(a, b) ==
    LET bit(x, k) == (x \div (2 ^ k)) % 2
        or(k) == Max2(bit(a, k), bit(b, k)) * (2 ^ k)
    IN or(0) + or(1) + or(2) + or(3) + or(4) + or(5) + or(6) + or(7)

\* data[byteIdx] = bestNibble << 4, or data[byteIdx] |= bestNibble
storeNibble(bytes, i, nibble) ==
    [bytes EXCEPT ![(i \div 2) + 1] =
        IF i % 2 = 0 THEN ToUint8(nibble * 16) ELSE BitOr(@, nibble)]

InSeq(x, sq) == \E k \in 1..Len(sq) : sq[k] = x

\* startListening, lines 145-167: a new AudioContext and an empty chunk list
StartListening(sr, kind, at) ==
    /\ lpc = "idle"
    /\ lpc' = "listening"
    /\ sampleRate' = sr
    /\ pcmKind' = kind
    /\ loudAt' = at
    /\ pcmLength' = 0
    /\ lresult' = NoDecode
    /\ expectedBytes' = 0
    /\ pos' = 0
    /\ energyStart' = 0
    /\ bestPos' = -1
    /\ bestScore' = 0
    /\ dataStart' = 0
    /\ ni' = 0
    /\ ldata' = <<>>
    /\ errorPositions' = <<>>
    /\ totalConfidence' = 0
    /\ UNCHANGED listenOthers

\* onaudioprocess, lines 161-163: one more chunk
AudioProcess ==
    /\ lpc = "listening"
    /\ pcmLength < MaxChunks * ChunkSize
    /\ pcmLength' = pcmLength + ChunkSize
    /\ UNCHANGED <<lpc, sampleRate, pcmKind, loudAt, expectedBytes, pos, energyStart,
                   bestPos, bestScore, dataStart, ni, ldata, errorPositions,
                   totalConfidence, lresult, listenOthers>>

\* stopAndDecode, lines 169-189 and 92: the capture ends, is normalized, and
\* detectPreamble enters findEnergyOnset
StopAndDecode(n) ==
    /\ lpc = "listening"
    /\ expectedBytes' = n
    /\ pos' = 0
    /\ lpc' = "onset"
    /\ UNCHANGED <<sampleRate, pcmKind, loudAt, pcmLength, energyStart, bestPos,
                   bestScore, dataStart, ni, ldata, errorPositions, totalConfidence,
                   lresult, listenOthers>>

\* findEnergyOnset, lines 72-82, one turn of the loop or its end; then
\* detectPreamble, lines 93-98
OnsetScan ==
    /\ lpc = "onset"
    /\ LET found == pos + onsetWindow(sampleRate) < pcmLength
                    /\ energyAbove(pcmKind, loudAt, sampleRate, pos)
           ended == ~(pos + onsetWindow(sampleRate) < pcmLength)
           onset == IF found THEN Max2(0, pos - onsetStep(sampleRate)) ELSE 0
       IN IF found \/ ended
          THEN /\ energyStart' = onset
               /\ pos' = searchStart(sampleRate, onset)
               /\ lpc' = "preamble"
          ELSE /\ pos' = pos + onsetStep(sampleRate)
               /\ UNCHANGED <<energyStart, lpc>>
    /\ bestPos' = -1
    /\ bestScore' = 0
    /\ UNCHANGED <<sampleRate, pcmKind, loudAt, pcmLength, expectedBytes, dataStart, ni,
                   ldata, errorPositions, totalConfidence, lresult, listenOthers>>

\* detectPreamble, lines 100-127, one turn of the loop or its end; then
\* stopAndDecode, lines 195-198
PreambleScan ==
    /\ lpc = "preamble"
    /\ IF pos < searchEnd(sampleRate, pcmLength, energyStart)
       THEN LET score == scoreAt(pcmKind, loudAt, sampleRate, pos)
            IN /\ bestScore' = IF score > bestScore THEN score ELSE bestScore
               /\ bestPos' = IF score > bestScore THEN pos + preambleLength(sampleRate)
                             ELSE bestPos
               /\ pos' = pos + preambleStep(sampleRate)
               /\ UNCHANGED <<lpc, dataStart, ni, ldata, errorPositions, totalConfidence>>
       ELSE /\ dataStart' = IF preambleFound(bestScore) THEN bestPos
                            ELSE energyStart + preambleLength(sampleRate)
            /\ lpc' = "nibbles"
            /\ ni' = 0
            /\ ldata' = Zeros(expectedBytes)
            /\ errorPositions' = <<>>
            /\ totalConfidence' = 0
            /\ UNCHANGED <<pos, bestPos, bestScore>>
    /\ UNCHANGED <<sampleRate, pcmKind, loudAt, pcmLength, expectedBytes, energyStart,
                   lresult, listenOthers>>

\* stopAndDecode, lines 200-219: one turn of the nibble loop
DecodeNibble ==
    /\ lpc = "nibbles"
    /\ ni < expectedBytes * 2
    /\ LET byteIdx == ni \div 2
           best == pickBest(spectrum(pcmKind, ni))
           conf == confOf(best)
       IN IF pastEnd(windowEnd(sampleRate, dataStart, ni), pcmLength)
          THEN /\ errorPositions' = Append(errorPositions, byteIdx)
               /\ UNCHANGED <<ldata, totalConfidence>>
          ELSE /\ totalConfidence' = totalConfidence + conf
               /\ ldata' = storeNibble(ldata, ni, best.bestNibble)
               /\ errorPositions' =
                     IF lowConfidence(conf) /\ ~InSeq(byteIdx, errorPositions)
                     THEN Append(errorPositions, byteIdx) ELSE errorPositions
    /\ ni' = ni + 1
    /\ UNCHANGED <<lpc, sampleRate, pcmKind, loudAt, pcmLength, expectedBytes, pos,
                   energyStart, bestPos, bestScore, dataStart, lresult, listenOthers>>

\* stopAndDecode, lines 221-227: the result
ReturnDecoded ==
    /\ lpc = "nibbles"
    /\ ni = expectedBytes * 2
    /\ lresult' = [data |-> ldata,
                   confidence |-> meanConfidence(totalConfidence, expectedBytes * 2),
                   errorPositions |-> errorPositions]
    /\ lpc' = "done"
    /\ UNCHANGED <<sampleRate, pcmKind, loudAt, pcmLength, expectedBytes, pos,
                   energyStart, bestPos, bestScore, dataStart, ni, ldata,
                   errorPositions, totalConfidence, listenOthers>>

\* DecodePanel.handleStop calls stopAndDecode(24), which is also the default
ExpectedBytesInputs == {24}
LoudAtInputs == {0, 5000}

NextListen ==
    \/ \E sr \in SampleRates, kind \in {"zero", "clean", "weak"}, at \in LoudAtInputs :
          StartListening(sr, kind, at)
    \/ AudioProcess
    \/ \E n \in ExpectedBytesInputs : StopAndDecode(n)
    \/ OnsetScan
    \/ PreambleScan
    \/ DecodeNibble
    \/ ReturnDecoded

SpecListen == Init /\ [][NextListen]_vars

\* stopAndDecode(expectedBytes) takes any byte count
AnyExpectedBytes == {0, 1, 24}

NextListenAny ==
    \/ \E sr \in SampleRates, kind \in {"zero", "clean", "weak"}, at \in LoudAtInputs :
          StartListening(sr, kind, at)
    \/ AudioProcess
    \/ \E n \in AnyExpectedBytes : StopAndDecode(n)
    \/ OnsetScan
    \/ PreambleScan
    \/ DecodeNibble
    \/ ReturnDecoded

SpecListenAny == Init /\ [][NextListenAny]_vars

\* the decode is running
Decoding == lpc \in {"onset", "preamble", "nibbles"}

\* the loop the decode is in, counted down, and how far that loop has come
Phase == CASE lpc = "onset" -> 3 [] lpc = "preamble" -> 2 [] lpc = "nibbles" -> 1
           [] OTHER -> 0
Work == IF lpc = "nibbles" THEN ni ELSE pos

\* C14: demodulation terminates for every capture: the energy-onset scan, the
\* preamble search and the nibble loop each end after finitely many steps: the stride
\* of each scan is at least one sample, every step of a loop moves its position or
\* index forward or leaves the loop for the next one, and the positions are bounded
\* by the length of the capture and the index by the number of nibbles.
C14_DecodeTerminates ==
    /\ [](Decoding =>
            /\ onsetStep(sampleRate) >= 1
            /\ preambleStep(sampleRate) >= 1
            /\ pos <= pcmLength + onsetStep(sampleRate) + preambleStep(sampleRate)
            /\ ni <= 2 * expectedBytes)
    /\ [][Decoding => (Phase' < Phase \/ (Phase' = Phase /\ Work' > Work))]_vars

C14_Witness ==
    /\ lpc = "done"
    /\ pcmKind = "weak"
    /\ pcmLength >= 10 * ChunkSize
    /\ energyStart > 0
    /\ pos > energyStart

\* nibble i (0-based, high nibble first) of the bytes
NibbleOf(bytes, i) ==
    IF i % 2 = 0 THEN bytes[(i \div 2) + 1] \div 16 ELSE bytes[(i \div 2) + 1] % 16

\* the last sample, exclusive, of the window of nibble i
SlotEnd(i) ==
    dataStart + i * ((120 * sampleRate) \div 1000) + ((15 * sampleRate) \div 1000)
        + ((100 * sampleRate) \div 1000) - ((20 * sampleRate) \div 1000)

\* C15: for every capture, the empty and the too short ones too, the decode returns a
\* result whose data has exactly expectedBytes bytes; a byte with a nibble window that
\* runs past the end of the buffer is in errorPositions and that nibble is zero.
C15_AlwaysResult ==
    /\ lpc = "nibbles" => Len(ldata) = expectedBytes
    /\ lpc = "done" =>
          /\ Len(lresult.data) = expectedBytes
          /\ \A i \in 0..(2 * expectedBytes - 1) :
                SlotEnd(i) > pcmLength =>
                    /\ InSeq(i \div 2, lresult.errorPositions)
                    /\ NibbleOf(lresult.data, i) = 0

C15_Witness ==
    /\ lpc = "done"
    /\ pcmKind = "clean"
    /\ SlotEnd(0) <= pcmLength
    /\ SlotEnd(1) > pcmLength
    /\ lresult.data[1] = 48
    /\ lresult.errorPositions[1] = 0

\* the duration of a frame of n bytes, in milliseconds
FrameMs(n) == 8 * 120 + 2 * n * 120 + 300

\* C16: an all-zero capture longer than the frame decodes to confidence 0 and an
\* errorPositions holding every byte index 0..expectedBytes-1.
C16_SilenceFlagged ==
    (lpc = "done" /\ pcmKind = "zero" /\ pcmLength * 1000 > FrameMs(expectedBytes) * sampleRate)
        => /\ lresult.confidence = 0
           /\ {lresult.errorPositions[k] : k \in 1..Len(lresult.errorPositions)}
                 = 0..(expectedBytes - 1)

C16_Witness ==
    /\ lpc = "done"
    /\ pcmKind = "zero"
    /\ pcmLength * 1000 > FrameMs(expectedBytes) * sampleRate
    /\ Len(lresult.errorPositions) = 24
    /\ lresult.data = Zeros(24)

(***************************************************************************)
(* What the decode returns, stated apart from the loop that computes it.    *)
(***************************************************************************)
\* the confidence of nibble slot i, in thousandths, and whether its window is
\* past the end of the capture
SlotConf(i) == confOf(pickBest(spectrum(pcmKind, i)))
SlotSkipped(i) == SlotEnd(i) > pcmLength

\* byte b has a nibble of low confidence or with a window past the end
Suspect(b) == \E i \in {2 * b, 2 * b + 1} : SlotSkipped(i) \/ SlotConf(i) < 550

\* errorPositions holds exactly the suspect bytes
FlagsSuspects(ep) ==
    /\ \A k \in 1..Len(ep) : ep[k] \in 0..(expectedBytes - 1)
    /\ \A b \in 0..(expectedBytes - 1) : InSeq(b, ep) <=> Suspect(b)

\* C21 (as stated): after any decode, errorPositions holds byte index b if and only
\* if one of b's two nibbles had a confidence below 0.55 or a window past the end of
\* the buffer; it holds no index more than once, and its indices increase.
C21_ErrorPositionsExact ==
    lpc = "done" =>
        /\ FlagsSuspects(lresult.errorPositions)
        /\ \A j, k \in 1..Len(lresult.errorPositions) :
              j < k => lresult.errorPositions[j] < lresult.errorPositions[k]

\* the sum of the confidences of the first k slots; a skipped slot adds nothing
RECURSIVE SumConf(_)
SumConf(k) ==
    IF k = 0 THEN 0
    ELSE SumConf(k - 1) + (IF SlotSkipped(k - 1) THEN 0 ELSE SlotConf(k - 1))

\* C22 (as stated): the confidence returned is the mean of the per-nibble
\* confidences over all 2 * expectedBytes slots and lies in [0, 1], never NaN, for
\* every capture and every expectedBytes, 0 included, skipped slots included.
C22_MeanInRange ==
    lpc = "done" =>
        /\ lresult.confidence \in 0..1000
        /\ lresult.confidence = SumConf(2 * expectedBytes) \div (2 * expectedBytes)

\* detectPreamble, lines 100-101: the k-th candidate position and how many there are
CandidateAt(k) == searchStart(sampleRate, energyStart) + k * preambleStep(sampleRate)
CandidateCount ==
    LET from == searchStart(sampleRate, energyStart)
        to == searchEnd(sampleRate, pcmLength, energyStart)
    IN IF to <= from THEN 0 ELSE ((to - from - 1) \div preambleStep(sampleRate)) + 1

\* the scores of the candidates, in the order of the search
CandidateScores ==
    [k \in 0..(CandidateCount - 1) |->
        scoreAt(pcmKind, loudAt, sampleRate, CandidateAt(k))]

\* the highest score of a candidate, 0 without candidates, and the first candidate
\* that has it
TopOf(scores) ==
    IF DOMAIN scores = {} THEN 0
    ELSE CHOOSE s \in {scores[k] : k \in DOMAIN scores} :
            \A k \in DOMAIN scores : scores[k] <= s
FirstAt(scores, s) ==
    LET at == {k \in DOMAIN scores : scores[k] = s}
    IN CHOOSE k \in at : \A j \in at : k <= j
TopScore == TopOf(CandidateScores)
TopCandidate == LET scores == CandidateScores IN FirstAt(scores, TopOf(scores))

\* the two outcomes of detectPreamble
Located == dataStart = CandidateAt(TopCandidate) + preambleLength(sampleRate)
Fallback == dataStart = energyStart + preambleLength(sampleRate)

\* C23 (as stated): the preamble is located when the best candidate's score is at
\* least 40% of the highest possible score of 2 * PREAMBLE_CYCLES, and the data
\* starts at that candidate plus the preamble length; otherwise the data starts at
\* the energy onset plus the preamble length; either way the data start is at least
\* one preamble length into the buffer and the decode goes on.
C23_LocatedAtThreshold ==
    lpc \in {"nibbles", "done"} =>
        /\ bestScore = TopScore
        /\ IF bestScore >= 4 * 2 * PREAMBLE_CYCLES THEN Located ELSE Fallback
        /\ dataStart >= preambleLength(sampleRate)

\* C23: the preamble is located when the best candidate's score is above 40% of the
\* highest possible score of 2 * PREAMBLE_CYCLES, and the data starts at that
\* candidate plus the preamble length; otherwise, a score of exactly 40% included,
\* the data starts at the energy onset plus the preamble length; either way the data
\* start is at least one preamble length into the buffer and the decode goes on.
C23_LocatedAboveThreshold ==
    lpc \in {"nibbles", "done"} =>
        /\ bestScore = TopScore
        /\ IF bestScore > 4 * 2 * PREAMBLE_CYCLES THEN Located ELSE Fallback
        /\ dataStart >= preambleLength(sampleRate)

C23_Witness ==
    /\ lpc = "done"
    /\ pcmKind = "clean"
    /\ bestScore > 4 * 2 * PREAMBLE_CYCLES
    /\ Located
    /\ ~Fallback

(***************************************************************************)
(* OfflineAuditQueue (audit-log.ts): enqueue, and flush, which awaits       *)
(* batchSubmit; enqueue calls and other flush calls run at each await.      *)
(* Entries are numbered in the order of their enqueue.                      *)
(***************************************************************************)
\* Mutant: the entries taken from the end of the copy.
entryFromEnd(entries, i) == entries[Len(entries) - i]

\* batchSubmit, line 54: entries[i]
entryAt(entries, i) == entries[i + 1]

\* enqueue, lines 138-141: push and persist
Enqueue ==
    /\ enqueued < MaxEntries
    /\ enqueued' = enqueued + 1
    /\ queue' = Append(queue, enqueued + 1)
    /\ storage' = queue'
    /\ UNCHANGED <<chain, flushes, queueOthers>>

\* flush, lines 148-149, and batchSubmit, line 51: the queue is copied and
\* batchSubmit entered
Flush(f) ==
    /\ flushes[f].fpos = "idle"
    /\ flushes' = [flushes EXCEPT ![f] =
                     [fpos |-> "submitting", entries |-> queue, i |-> 0, results |-> <<>>]]
    /\ UNCHANGED <<queue, storage, chain, enqueued, queueOthers>>

\* batchSubmit, lines 53-61: logToChain confirms entries[i]; its result is pushed
\* (a result is the place of the transaction on chain)
LogToChainConfirms(f) ==
    /\ flushes[f].fpos = "submitting"
    /\ flushes[f].i < Len(flushes[f].entries)
    /\ Len(chain) < MaxSubmissions
    /\ chain' = Append(chain, entryAt(flushes[f].entries, flushes[f].i))
    /\ flushes' = [flushes EXCEPT ![f].i = @ + 1,
                                  ![f].results = Append(@, Len(chain) + 1)]
    /\ UNCHANGED <<queue, storage, enqueued, queueOthers>>

\* batchSubmit, line 54: logToChain rejects; batchSubmit and flush reject with it
LogToChainRejects(f) ==
    /\ flushes[f].fpos = "submitting"
    /\ flushes[f].i < Len(flushes[f].entries)
    /\ flushes' = [flushes EXCEPT ![f].fpos = "failed"]
    /\ UNCHANGED <<queue, storage, chain, enqueued, queueOthers>>

\* batchSubmit, line 64, and flush, lines 150-152: the queue is emptied and persisted
FlushReturns(f) ==
    /\ flushes[f].fpos = "submitting"
    /\ flushes[f].i = Len(flushes[f].entries)
    /\ queue' = <<>>
    /\ storage' = queue'
    /\ flushes' = [flushes EXCEPT ![f].fpos = "returned"]
    /\ UNCHANGED <<chain, enqueued, queueOthers>>

\* the caller of a flush that has ended may call flush again
FlushAgain(f) ==
    /\ flushes[f].fpos \in {"returned", "failed"}
    /\ flushes' = [flushes EXCEPT ![f] = NoFlush]
    /\ UNCHANGED <<queue, storage, chain, enqueued, queueOthers>>

NextQueue ==
    \/ Enqueue
    \/ \E f \in {1, 2} : Flush(f)
    \/ \E f \in {1, 2} : LogToChainConfirms(f)
    \/ \E f \in {1, 2} : LogToChainRejects(f)
    \/ \E f \in {1, 2} : FlushReturns(f)
    \/ \E f \in {1, 2} : FlushAgain(f)

SpecQueue == Init /\ [][NextQueue]_vars

\* C26 (as stated): no entry handed to enqueue is ever lost: under any interleaving
\* of enqueue calls with a flush in progress, every such entry is on chain or is
\* still in the queue and in the persisted copy.
C26_NoEntryLost ==
    \A e \in 1..enqueued : InSeq(e, chain) \/ (InSeq(e, queue) /\ InSeq(e, storage))

\* what flush f has submitted so far is the start of its copy, in the copy's order,
\* with one result per entry
SubmittedInOrder(f) ==
    LET fl == flushes[f]
    IN /\ fl.i <= Len(fl.entries)
       /\ Len(fl.results) = fl.i
       /\ \A k \in 1..fl.i : chain[fl.results[k]] = fl.entries[k]
       /\ \A j, k \in 1..fl.i : j < k => fl.results[j] < fl.results[k]
       /\ fl.fpos = "returned" => fl.i = Len(fl.entries)

\* C27: flush submits the queued entries one at a time, first in first out; when
\* every submission succeeds the queue and its persisted copy are empty afterwards
\* and there is one result per entry, in the same order; when a submission fails
\* the error propagates and the queue and its persisted copy are as they were, so
\* that a later flush submits from the first entry again, entries already on chain
\* included.
C27_FlushFifo ==
    /\ [](\A f \in {1, 2} : SubmittedInOrder(f))
    /\ [][/\ Len(chain') <= Len(chain) + 1
          /\ \A f \in {1, 2} :
                /\ (flushes[f].fpos = "idle" /\ flushes'[f].fpos = "submitting") =>
                      /\ flushes'[f].entries = queue
                      /\ flushes'[f].i = 0
                /\ (flushes[f].fpos = "submitting" /\ flushes'[f].fpos = "returned") =>
                      /\ queue' = <<>>
                      /\ storage' = <<>>
                /\ (flushes[f].fpos = "submitting" /\ flushes'[f].fpos = "failed") =>
                      /\ queue' = queue
                      /\ storage' = storage
                      /\ chain' = chain]_vars

C27_Witness ==
    /\ flushes[1].fpos = "failed"
    /\ flushes[2].fpos = "returned"
    /\ flushes[2].results = <<2, 3>>
    /\ chain = <<1, 1, 2>>
    /\ queue = <<>>
    /\ storage = <<>>

(***************************************************************************)
(* The listen hook as its callers see it (useAcousticListen.ts):            *)
(* startListening, which awaits getUserMedia, and stopAndDecode, called in  *)
(* any order.  The decode itself is the one modelled above; here its result *)
(* is known by the call that made it and by what it was made from.          *)
(***************************************************************************)
\* Mutant: the reference to the closed context is kept.
closedContextKept(ctx) == ctx

\* ctx.close(); ctxRef.current = null, lines 181-183
closedContext(ctx) == NoContext

\* startListening, lines 145-150: up to the await of getUserMedia
StartListeningCalled ==
    /\ starts < MaxStarts
    /\ starts' = starts + 1
    /\ chunks' = 0
    /\ hookResult' = NoHookResult
    /\ ctxRef' = starts + 1
    /\ pending' = pending + 1
    /\ started' = TRUE
    /\ UNCHANGED <<isListening, returned, processor, stray, stops, hookOthers>>

\* startListening, lines 153-166: the microphone is granted and the processor connected
StartListeningResolves ==
    /\ pending > 0
    /\ pending' = pending - 1
    /\ stray' = IF processor THEN stray + 1 ELSE stray
    /\ processor' = TRUE
    /\ isListening' = TRUE
    /\ UNCHANGED <<ctxRef, chunks, hookResult, returned, starts, stops, started, hookOthers>>

\* startListening, lines 150-156: getUserMedia rejects, or the context was closed
\* meanwhile and the nodes cannot be created
StartListeningRejects ==
    /\ pending > 0
    /\ pending' = pending - 1
    /\ UNCHANGED <<isListening, ctxRef, chunks, hookResult, returned, processor, stray,
                   starts, stops, started, hookOthers>>

\* onaudioprocess of a connected processor, lines 161-163
HookAudioProcess ==
    /\ processor \/ stray > 0
    /\ chunks < MaxHookChunks
    /\ chunks' = chunks + 1
    /\ UNCHANGED <<isListening, ctxRef, hookResult, returned, pending, processor, stray,
                   starts, stops, started, hookOthers>>

\* stopAndDecode, lines 169-228
HookStopAndDecode(n) ==
    /\ stops < MaxStops
    /\ stops' = stops + 1
    /\ isListening' = FALSE
    /\ processor' = FALSE
    /\ started' = FALSE
    /\ IF ctxRef = NoContext
       THEN /\ returned' = Undefined
            /\ UNCHANGED <<ctxRef, hookResult>>
       ELSE LET made == [defined |-> TRUE, by |-> stops + 1, chunks |-> chunks, bytes |-> n]
            IN /\ ctxRef' = closedContext(ctxRef)
               /\ hookResult' = made
               /\ returned' = made
    /\ UNCHANGED <<chunks, pending, stray, starts, hookOthers>>

NextHook ==
    \/ StartListeningCalled
    \/ StartListeningResolves
    \/ StartListeningRejects
    \/ HookAudioProcess
    \/ \E n \in AnyExpectedBytes : HookStopAndDecode(n)

SpecHook == Init /\ [][NextHook]_vars

\* C28: stopAndDecode returns a decode result only when it follows a startListening
\* with no stopAndDecode in between; before any start, or a second time after a
\* stop, it returns undefined and leaves the previous result as it was; after every
\* stopAndDecode isListening is false and the audio context reference is cleared;
\* every startListening empties the chunk buffer and clears the previous result
\* before it captures.
C28_StopFollowsStart ==
    /\ []((ctxRef # NoContext) <=> started)
    /\ [][/\ stops' = stops + 1 =>
                /\ returned'.defined <=> started
                /\ started => (returned'.by = stops' /\ hookResult' = returned')
                /\ ~started => (returned' = Undefined /\ hookResult' = hookResult)
                /\ isListening' = FALSE
                /\ ctxRef' = NoContext
          /\ starts' = starts + 1 =>
                /\ chunks' = 0
                /\ hookResult' = NoHookResult]_vars

C28_Witness ==
    /\ stops = 2
    /\ returned = Undefined
    /\ hookResult.defined
    /\ hookResult.by = 1
    /\ hookResult.chunks = 2
    /\ ~isListening
    /\ ctxRef = NoContext

(***************************************************************************)
(* The incident list of the web app (App, in services/incidents.ts) and     *)
(* the server's incident store behind getAllIncidents.                      *)
(***************************************************************************)
\* prev.some(l => l.id === id)
someWithId(prev, id) == \E k \in 1..Len(prev) : prev[k].id = id

\* prev.map(l => l.id === incident.id ? incident : l)
replaceById(prev, incident) ==
    [k \in 1..Len(prev) |-> IF prev[k].id = incident.id THEN incident ELSE prev[k]]

\* Mutant: the incident is put in front without looking for its id.
addAlways(prev, incident) == <<incident>> \o prev

\* addIncidentToLog, lines 129-135
addIncident(prev, incident) ==
    IF someWithId(prev, incident.id) THEN replaceById(prev, incident)
    ELSE <<incident>> \o prev

\* handleIncidentUpdate, lines 139-145
updateIncident(prev, updated) ==
    LET exists == someWithId(prev, updated.id)
    IN IF exists THEN replaceById(prev, updated) ELSE <<updated>> \o prev

\* loadIncidents, lines 103-108: the server's incidents, then the local-only ones
mergeIncidents(prev, serverIncidents) ==
    LET serverIds == {serverIncidents[k].id : k \in 1..Len(serverIncidents)}
        isLocalOnly(l) == l.id \notin serverIds
    IN serverIncidents \o SelectSeq(prev, isLocalOnly)

\* IncidentStore.create: Map.set keeps the place of a key it has, else adds at the end
storeSet(st, incident) ==
    IF someWithId(st, incident.id) THEN replaceById(st, incident)
    ELSE Append(st, incident)

\* IncidentStore.delete
storeDelete(st, id) == LET kept(l) == l.id # id IN SelectSeq(st, kept)

\* loadFromStorage, lines 67-74: what an earlier session saved
StoredLogs == {<<>>, <<Inc(1, 0)>>, <<Inc(2, 0), Inc(1, 0)>>}

\* App mounts, line 87: useState<Incident[]>(loadFromStorage)
Mounted == lastOp # NoOp
AppMounts(stored) ==
    /\ ~Mounted
    /\ logs' = stored
    /\ lastOp' = [op |-> "mount", incident |-> Inc(0, 0)]
    /\ UNCHANGED <<incidents, response, loads, revs, logOthers>>

\* addIncidentToLog, lines 128-136
AddIncidentToLog(id) ==
    /\ Mounted
    /\ revs < MaxRevs
    /\ revs' = revs + 1
    /\ logs' = addIncident(logs, Inc(id, revs + 1))
    /\ lastOp' = [op |-> "add", incident |-> Inc(id, revs + 1)]
    /\ UNCHANGED <<incidents, response, loads, logOthers>>

\* handleIncidentUpdate, lines 138-146
HandleIncidentUpdate(id) ==
    /\ Mounted
    /\ revs < MaxRevs
    /\ revs' = revs + 1
    /\ logs' = updateIncident(logs, Inc(id, revs + 1))
    /\ lastOp' = [op |-> "update", incident |-> Inc(id, revs + 1)]
    /\ UNCHANGED <<incidents, response, loads, logOthers>>

\* POST /api/incidents, routes/incidents.ts lines 44-58
PostIncident(id) ==
    /\ revs < MaxRevs
    /\ revs' = revs + 1
    /\ incidents' = storeSet(incidents, Inc(id, revs + 1))
    /\ UNCHANGED <<logs, response, loads, lastOp, logOthers>>

\* DELETE /api/incidents/:id, routes/incidents.ts lines 83-94
DeleteIncident(id) ==
    /\ someWithId(incidents, id)
    /\ incidents' = storeDelete(incidents, id)
    /\ UNCHANGED <<logs, response, loads, revs, lastOp, logOthers>>

\* loadIncidents, line 102, and GET /api/incidents: the store's values are sent
LoadIncidents ==
    /\ Mounted
    /\ loads < MaxLoads
    /\ ~response.sent
    /\ loads' = loads + 1
    /\ response' = [sent |-> TRUE, incidents |-> incidents]
    /\ UNCHANGED <<logs, incidents, revs, lastOp, logOthers>>

\* loadIncidents, lines 103-108: the answer arrives and is merged
LoadIncidentsMerges ==
    /\ response.sent
    /\ logs' = mergeIncidents(logs, response.incidents)
    /\ response' = NoResponse
    /\ lastOp' = [op |-> "merge", incident |-> Inc(0, loads)]
    /\ UNCHANGED <<incidents, loads, revs, logOthers>>

\* loadIncidents, lines 109-111: the request fails
LoadIncidentsFails ==
    /\ response.sent
    /\ response' = NoResponse
    /\ UNCHANGED <<logs, incidents, loads, revs, lastOp, logOthers>>

NextLog ==
    \/ \E stored \in StoredLogs : AppMounts(stored)
    \/ \E id \in 1..MaxIds : AddIncidentToLog(id)
    \/ \E id \in 1..MaxIds : HandleIncidentUpdate(id)
    \/ \E id \in 1..MaxIds : PostIncident(id)
    \/ \E id \in 1..MaxIds : DeleteIncident(id)
    \/ LoadIncidents
    \/ LoadIncidentsMerges
    \/ LoadIncidentsFails

SpecLog == Init /\ [][NextLog]_vars

\* no two incidents of the list have the same id
UniqueIds(list) == \A j, k \in 1..Len(list) : list[j].id = list[k].id => j = k

\* C29: the incident list never holds two incidents with the same id: from a list
\* without duplicates, any sequence of addIncidentToLog, handleIncidentUpdate and
\* the merge of loadIncidents, a load that ends after local additions included,
\* keeps the ids unique; adding or updating an id the list has replaces that entry
\* where it is and adds none.
C29_UniqueIds ==
    /\ [](UniqueIds(logs) /\ UniqueIds(response.incidents))
    /\ [][(lastOp' # lastOp /\ lastOp'.op \in {"add", "update"}) =>
             LET x == lastOp'.incident
             IN IF someWithId(logs, x.id)
                THEN /\ Len(logs') = Len(logs)
                     /\ \A k \in 1..Len(logs) :
                           logs'[k] = IF logs[k].id = x.id THEN x ELSE logs[k]
                ELSE logs' = <<x>> \o logs]_vars

C29_Witness ==
    /\ lastOp.op = "add"
    /\ lastOp.incident = Inc(1, 3)
    /\ loads = 1
    /\ ~response.sent
    /\ logs = <<Inc(2, 1), Inc(1, 3)>>

(***************************************************************************)
(* The server's signing key (routes/encode.ts): POST /encode requests run   *)
(* interleaved at their awaits; generateKeypair makes a new keypair each    *)
(* time it is called.                                                       *)
(***************************************************************************)
\* Mutant: a keypair is asked for until one has arrived.
noKeyYetArrived(promise) == promise # "resolved"

\* getSigningKey, line 9: if (!signingKeyPromise)
noKeyYet(promise) == promise = "null"

\* POST /encode, lines 21-33: the body is checked and encodeMessage awaited, or the
\* request is answered with an error
EncodeArrives(r, valid) ==
    /\ requests[r].at = "none"
    /\ requests' = [requests EXCEPT ![r].at = IF valid THEN "encoding" ELSE "failed"]
    /\ UNCHANGED <<signingKeyPromise, promiseKey, generated, keyOthers>>

\* POST /encode, lines 33 and 47-49: encodeMessage rejects
EncodeMessageRejects(r) ==
    /\ requests[r].at = "encoding"
    /\ requests' = [requests EXCEPT ![r].at = "failed"]
    /\ UNCHANGED <<signingKeyPromise, promiseKey, generated, keyOthers>>

\* POST /encode, lines 33-36, and getSigningKey, lines 8-13: encodeMessage resolves
\* and the key promise is awaited, generateKeypair being called when there is none
EncodeMessageResolves(r) ==
    /\ requests[r].at = "encoding"
    /\ requests' = [requests EXCEPT ![r].at = "awaiting"]
    /\ IF noKeyYet(signingKeyPromise)
       THEN /\ generated' = generated + 1
            /\ promiseKey' = generated + 1
            /\ signingKeyPromise' = "pending"
       ELSE UNCHANGED <<signingKeyPromise, promiseKey, generated>>
    /\ UNCHANGED keyOthers

\* generateKeypair resolves or rejects
GenerateKeypairEnds(ok) ==
    /\ signingKeyPromise = "pending"
    /\ signingKeyPromise' = IF ok THEN "resolved" ELSE "rejected"
    /\ UNCHANGED <<promiseKey, generated, requests, keyOthers>>

\* POST /encode, lines 36-38: the key arrives and signCode is awaited, or the
\* promise is rejected and the request answered with an error
KeyArrives(r) ==
    /\ requests[r].at = "awaiting"
    /\ signingKeyPromise \in {"resolved", "rejected"}
    /\ requests' = [requests EXCEPT ![r] =
                      IF signingKeyPromise = "resolved"
                      THEN [at |-> "signing", key |-> promiseKey]
                      ELSE [at |-> "failed", key |-> 0]]
    /\ UNCHANGED <<signingKeyPromise, promiseKey, generated, keyOthers>>

\* POST /encode, lines 38-46: the signature is made and the answer sent with pubkey
SignCodeResolves(r) ==
    /\ requests[r].at = "signing"
    /\ requests' = [requests EXCEPT ![r].at = "answered"]
    /\ UNCHANGED <<signingKeyPromise, promiseKey, generated, keyOthers>>

NextKey ==
    \/ \E r \in 1..MaxRequests, valid \in BOOLEAN : EncodeArrives(r, valid)
    \/ \E r \in 1..MaxRequests : EncodeMessageRejects(r)
    \/ \E r \in 1..MaxRequests : EncodeMessageResolves(r)
    \/ \E ok \in BOOLEAN : GenerateKeypairEnds(ok)
    \/ \E r \in 1..MaxRequests : KeyArrives(r)
    \/ \E r \in 1..MaxRequests : SignCodeResolves(r)

SpecKey == Init /\ [][NextKey]_vars

\* the request has called getSigningKey
AskedForKey(r) == requests[r].at \in {"awaiting", "signing", "answered"}

\* C30: the server generates its signing keypair at most once per process: under
\* any interleaving of POST /encode requests, several arriving before the first
\* key generation has ended included, generateKeypair is called exactly once, and
\* every answer is signed with, and reports, the same public key.
C30_OneSigningKey ==
    /\ generated <= 1
    /\ \A r \in 1..MaxRequests :
          /\ AskedForKey(r) => generated = 1
          /\ requests[r].at \in {"signing", "answered"} => requests[r].key = 1
    /\ \A q, r \in 1..MaxRequests :
          (requests[q].at = "answered" /\ requests[r].at = "answered") =>
              requests[q].key = requests[r].key

C30_Witness ==
    /\ generated = 1
    /\ signingKeyPromise = "resolved"
    /\ requests[1].at = "answered"
    /\ requests[2].at = "answered"
    /\ requests[3].at = "awaiting"
    /\ requests[1].key = requests[2].key

====
